---- MODULE Spec2Model ----
(***************************************************************************)
(* State-machine model of coursemology_uploader: workflow.run, the         *)
(* submission state machine (_ensure_submissions_in_attempting_state,      *)
(* _wait_for_auto_grading), the executor (submit_answers,                  *)
(* _process_user_files), the identity resolver (get_fname_student_map)     *)
(* and the title lookups of coursemology_queries.                          *)
(*                                                                         *)
(* Strings that the program compares, matches or sorts are sequences of    *)
(* characters, ordered as ASCII orders them.  One element may stand for a  *)
(* fixed run of characters of a message template (it is named after the    *)
(* first character of the run).                                            *)
(*                                                                         *)
(* The remote platform is the environment.  Its contract in this model:    *)
(*  - a bulk job acts on a subset of the ids it was given by the time the  *)
(*    job wait returns (the whole set when the job completed, fewer when   *)
(*    the wait timed out) and on nothing afterwards;                       *)
(*  - auto-grading moves `submitted` submissions to `published` at any     *)
(*    time; it is observed at the next fetch of the submission list;       *)
(*  - a remote call that fails on transport raises an OSError, a file      *)
(*    read fails with OSError or UnicodeDecodeError, a lookup in the edit  *)
(*    view fails with ValueError.                                          *)
(***************************************************************************)
EXTENDS Integers, Sequences, FiniteSets, TLC

\* ------------------------------------------------------------------ bounds
NumStudents == 2

None == "None"

\* ---------------------------------------------------------------- strings
\* The characters (and message fragments) in their ASCII order.  "[" is the
\* text of an OSError, "'" of a UnicodeDecodeError, "A" and "Q" of the
\* ValueErrors of get_answer / submit_answer and get_question; "F" is
\* "Failed to submit ", "p" is "placeholder for ", "N" is "No matching s",
\* "t" is "tudent found", "u" is "ubmission found for student ".
AsciiOrder == <<"'", ".", "1", "2", "3", "4", ":", "A", "F", "N", "Q", "[",
                "a", "b", "c", "p", "t", "u">>

Ord(ch) == CHOOSE i \in 1..Len(AsciiOrder) : AsciiOrder[i] = ch

Range(s) == {s[i] : i \in 1..Len(s)}

\* Python's str ordering: lexicographic by character, a proper prefix first.
StrLt(s, t) ==
    \E i \in 1..(Len(s) + 1) :
        /\ i <= Len(t)
        /\ \A j \in 1..(i - 1) : s[j] = t[j]
        /\ \/ i = Len(s) + 1
           \/ i <= Len(s) /\ Ord(s[i]) < Ord(t[i])

StrLeq(s, t) == s = t \/ StrLt(s, t)

RECURSIVE Insert(_, _)
Insert(x, l) ==
    IF l = <<>> THEN <<x>>
    ELSE IF StrLeq(l[1], x) THEN <<l[1]>> \o Insert(x, Tail(l))
    ELSE <<x>> \o l

\* list.sort() of a list of str
RECURSIVE SortList(_)
SortList(l) ==
    IF l = <<>> THEN <<>>
    ELSE Insert(l[Len(l)], SortList(SubSeq(l, 1, Len(l) - 1)))

\* -------------------------------------------------------- title lookups
\* a lookup that would take the last item with the title, for comparison
FindByTitleLast(items, title) ==
    IF \E i \in 1..Len(items) : items[i].title = title
    THEN CHOOSE i \in 1..Len(items) :
            /\ items[i].title = title
            /\ \A j \in (i + 1)..Len(items) : items[j].title # title
    ELSE 0

\* index of the first item whose title is `title`, 0 when _find_by_title
\* raises ValueError
FindByTitle(items, title) ==
    IF \E i \in 1..Len(items) : items[i].title = title
    THEN CHOOSE i \in 1..Len(items) :
            /\ items[i].title = title
            /\ \A j \in 1..(i - 1) : items[j].title # title
    ELSE 0

\* ------------------------------------------------------ identity resolver
\* The roster is a sequence of records [id, name, email].  A lookup in
\* {s.email: s for s in students} gives the position in the roster of the
\* LAST student with that email (0: the email is no key of the dict).
EmailStudentMap(students, email) ==
    IF \E i \in 1..Len(students) : students[i].email = email
    THEN CHOOSE i \in 1..Len(students) :
            /\ students[i].email = email
            /\ \A j \in (i + 1)..Len(students) : students[j].email # email
    ELSE 0

\* an index that would keep the first student of a name, for comparison
NameStudentMapFirst(students, name) ==
    IF \E i \in 1..Len(students) : students[i].name = name
    THEN CHOOSE i \in 1..Len(students) :
            /\ students[i].name = name
            /\ \A j \in 1..(i - 1) : students[j].name # name
    ELSE 0

\* {s.name: s for s in students}, likewise
NameStudentMap(students, name) ==
    IF \E i \in 1..Len(students) : students[i].name = name
    THEN CHOOSE i \in 1..Len(students) :
            /\ students[i].name = name
            /\ \A j \in (i + 1)..Len(students) : students[j].name # name
    ELSE 0

\* a resolver that would try the name before the email, for comparison
MatchStudentNameFirst(user_data, students) ==
    IF NameStudentMap(students, user_data.name) # 0
    THEN NameStudentMap(students, user_data.name)
    ELSE EmailStudentMap(students, user_data.email)

\* a resolver that would look at the email only, for comparison
MatchStudentByEmailOnly(user_data, students) == EmailStudentMap(students, user_data.email)

\* position in the roster of the matched student, 0 for None
MatchStudentByEmailOrName(user_data, students) ==
    IF EmailStudentMap(students, user_data.email) # 0
    THEN EmailStudentMap(students, user_data.email)
    ELSE IF NameStudentMap(students, user_data.name) # 0
    THEN NameStudentMap(students, user_data.name)
    ELSE 0

\* fname_user_map is a sequence of <<key, user_data>> with distinct keys
TableKeys(table) == {table[i][1] : i \in 1..Len(table)}

TableGet(table, k) == table[CHOOSE i \in 1..Len(table) : table[i][1] = k][2]

\* The resulting dict: the keys of the table that matched a student, each
\* with the roster position of its student.
GetFnameStudentMap(students, table) ==
    [k \in {x \in TableKeys(table) :
                MatchStudentByEmailOrName(TableGet(table, x), students) # 0}
        |-> MatchStudentByEmailOrName(TableGet(table, k), students)]

\* -------------------------------------------------------- question router
\* re.match(pattern, filename) for the patterns of the model: a literal
\* character matches itself, "." matches any one character; the match is
\* anchored at position 0 and ignores what follows the pattern.
ReMatch(pattern, filename) ==
    /\ Len(pattern) <= Len(filename)
    /\ \A i \in 1..Len(pattern) : pattern[i] = "." \/ pattern[i] = filename[i]

\* a router that would return the last matching pattern, for comparison
GetQuestionKeyLast(filename, file_question_map) ==
    IF \E i \in 1..Len(file_question_map) : ReMatch(file_question_map[i][1], filename)
    THEN CHOOSE i \in 1..Len(file_question_map) :
            /\ ReMatch(file_question_map[i][1], filename)
            /\ \A j \in (i + 1)..Len(file_question_map) :
                    ~ReMatch(file_question_map[j][1], filename)
    ELSE 0

\* file_question_map is a sequence of <<pattern, title>> with distinct
\* patterns (a dict in insertion order).  Position of the returned pattern,
\* 0 for None.
GetQuestionKey(filename, file_question_map) ==
    IF \E i \in 1..Len(file_question_map) : ReMatch(file_question_map[i][1], filename)
    THEN CHOOSE i \in 1..Len(file_question_map) :
            /\ ReMatch(file_question_map[i][1], filename)
            /\ \A j \in 1..(i - 1) : ~ReMatch(file_question_map[j][1], filename)
    ELSE 0

\* `if not question_key`: None and the empty string are both falsy
NotQuestionKey(file_question_map, qk) == qk = 0 \/ file_question_map[qk][1] = <<>>

\* ------------------------------------------------------------ the inputs
Students == 1..NumStudents

Name(i) == <<"n", i>>
Email(i) == <<"e", i>>

\* course_api.users.index_students().users
Roster == [i \in Students |-> [id |-> i, name |-> Name(i), email |-> Email(i)]]

Q1 == <<"Q", "1">>
Q2 == <<"Q", "2">>

\* the CSV tables: k1 by email and k2 by name; k1 by email although its name
\* is that of student 2 and k2 by name, both student 1; k2 not in the table;
\* k1 not in the table; k1 and k3 (a key that has no files) match nobody
Tables ==
    { << <<"k1", [name |-> Name(1), email |-> Email(1)]>>,
         <<"k2", [name |-> Name(2), email |-> Email(0)]>> >>,
      << <<"k1", [name |-> Name(2), email |-> Email(1)]>>,
         <<"k2", [name |-> Name(1), email |-> Email(0)]>> >>,
      << <<"k1", [name |-> Name(1), email |-> Email(1)]>> >>,
      << <<"k2", [name |-> Name(2), email |-> Email(0)]>> >>,
      << <<"k1", [name |-> Name(0), email |-> Email(0)]>>,
         <<"k3", [name |-> Name(0), email |-> Email(0)]>> >> }

\* get_user_files: a sequence of <<key, filenames>> (dicts in insertion order)
UserFilesChoices ==
    { << <<"k1", << <<"a">>, <<"c">> >> >>, <<"k2", << <<"a", "b">> >> >> >>,
      << <<"k1", << <<"a", "b">>, <<"a">> >> >>, <<"k2", << <<"b">> >> >> >> }

\* config.file_question_map
RouteTables ==
    { << << <<"a">>, Q1 >>, << <<"b">>, Q2 >> >>,
      << << <<"a">>, Q1 >>, << <<".", "b">>, Q1 >> >>,
      << << <<>>, Q1 >>, << <<"b">>, Q2 >> >> }

\* the inputs of a whole run
RunScenarios ==
    { [fname_user_map |->
            << <<"k1", [name |-> Name(1), email |-> Email(1)]>>,
               <<"k2", [name |-> Name(2), email |-> Email(0)]>> >>,
       user_files |-> << <<"k1", << <<"a">>, <<"c">> >> >>, <<"k2", << <<"b">> >> >> >>,
       file_question_map |-> << << <<"a">>, Q1 >>, << <<"b">>, Q2 >> >>],
      [fname_user_map |->
            << <<"k1", [name |-> Name(2), email |-> Email(1)]>>,
               <<"k2", [name |-> Name(1), email |-> Email(0)]>> >>,
       user_files |-> << <<"k1", << <<"a", "b">> >> >>, <<"k2", << <<"c">> >> >>,
                         <<"k3", << <<"a">> >> >> >>,
       file_question_map |-> << << <<"a">>, Q1 >>, << <<".", "b">>, Q1 >> >>] }

\* (grading_max_wait_seconds, grading_poll_interval_seconds)
GradingConfigs == { <<10, 5>>, <<4, 5>> }

\* the operational settings of a run: job_timeout_seconds and the two above
OperationalConfigs ==
    { [job_timeout |-> IF g[1] = 10 THEN 60 ELSE 30, grading |-> g] : g \in GradingConfigs }

\* assessment_api.categories.index().categories for the configured title "T"
CategoryLists ==
    { <<[id |-> 1, title |-> "X"]>>,
      <<[id |-> 1, title |-> "X"], [id |-> 2, title |-> "T"], [id |-> 3, title |-> "T"]>> }

\* assessment_api.assessments.index(category_id).assessments, title "A"
AssessmentLists ==
    { <<[id |-> 4, title |-> "B"]>>,
      <<[id |-> 5, title |-> "A"], [id |-> 6, title |-> "A"]>> }

WorkflowStates == {"unstarted", "attempting", "submitted", "published"}

\* What the platform can hold for one student: no submission record at
\* all, or a record; AssessmentSubmission.id is Optional and a record that
\* is `unstarted` may have none.
RemoteRecords ==
    {[state |-> "none", hasId |-> FALSE]}
        \cup {[state |-> "unstarted", hasId |-> b] : b \in BOOLEAN}
        \cup {[state |-> st, hasId |-> TRUE] : st \in WorkflowStates \ {"unstarted"}}

\* ------------------------------------------------------------- the state
VARIABLES
    pc,                     \* where run is
    error,                  \* the exception that ended the run, or None
    config,                 \* [job_timeout, grading: <<max_wait, poll_interval>>,
                            \*  report_path]
    students,               \* the roster
    fname_user_map,         \* the CSV table
    user_files,
    fname_student_map,
    file_question_map,
    categories, category,   \* the fetched list, the id of the one found
    assessments, assessment,
    remote,                 \* the platform: Students -> RemoteRecords
    graded_at,              \* simulated platform: when grading of a student ends
    base_dir,               \* the file system: [exists, is_dir, glob], glob being
                            \* the paths base_dir.glob(pattern) yields, in order
    student_submissions,    \* the list run holds (Students -> RemoteRecords)
    user_submission_map,    \* {s.course_user.id: s}, built once
    student_ids,            \* the ids passed to the bulk jobs
    bulk_jobs,              \* the bulk jobs issued and awaited so far, in order
    submitted_count, polls, max_iterations,   \* locals of the grading wait
    events,                 \* the remote calls and sleeps so far, in order
    report,                 \* key -> report entry, for the keys reached so far
    all_submission_jobs,
    ki, phase, fi, ri,      \* the executor's position: key, loop, file, route
    submitted_questions, submission_jobs, submission_edit,  \* locals of one key
    question_key,           \* position of the pattern in the table, 0 for None
    writes,                 \* the answer-write calls so far, in order
    saved,                  \* save_report has written the report
    url,                    \* scrape_directory_index: the start URL, normalised
    site,                   \* what requests.get gives for a URL
    queue, visited, all_links, unique_links,   \* its locals
    fetched                 \* the URLs it has requested, in order

ensureVars == <<remote, student_submissions, student_ids, bulk_jobs, submitted_count,
                polls, max_iterations>>
scrapeVars == <<url, site, queue, visited, all_links, unique_links, fetched>>
inputVars == <<config, students, fname_user_map, user_files, fname_student_map,
              file_question_map, graded_at, base_dir, scrapeVars>>
lookupVars == <<categories, category, assessments, assessment>>

execVars == <<report, all_submission_jobs, ki, phase, fi, ri, submitted_questions,
              submission_jobs, submission_edit, question_key, writes, saved>>

vars == <<pc, error, inputVars, lookupVars, ensureVars, user_submission_map, events,
          execVars>>

\* scrape_directory_index has not been called
ScrapeInit ==
    /\ url = <<>>
    /\ site = <<>>
    /\ queue = <<>>
    /\ visited = {}
    /\ all_links = <<>>
    /\ unique_links = <<>>
    /\ fetched = <<>>

NoRecord == [s \in Students |-> [state |-> "none", hasId |-> FALSE]]

\* no simulated clock: grading is left to the platform
Untimed == [s \in Students |-> 0]
NoFiles == [exists |-> TRUE, is_dir |-> TRUE, glob |-> <<>>]

\* submit_answers has not started
ExecInit ==
    /\ report = <<>>
    /\ all_submission_jobs = <<>>
    /\ ki = 1
    /\ phase = "key"
    /\ fi = 1
    /\ ri = 1
    /\ submitted_questions = {}
    /\ submission_jobs = <<>>
    /\ submission_edit = None
    /\ question_key = 0
    /\ writes = <<>>
    /\ saved = FALSE

Init ==
    /\ pc = "load"
    /\ error = None
    /\ config = None
    /\ students = <<>>
    /\ fname_user_map = <<>>
    /\ user_files = <<>>
    /\ fname_student_map = <<>>
    /\ file_question_map = <<>>
    /\ categories = <<>>
    /\ category = 0
    /\ assessments = <<>>
    /\ assessment = 0
    /\ remote = NoRecord
    /\ graded_at = Untimed
    /\ base_dir = NoFiles
    /\ student_submissions = NoRecord
    /\ user_submission_map = NoRecord
    /\ student_ids = {}
    /\ bulk_jobs = <<>>
    /\ submitted_count = 0
    /\ polls = 0
    /\ max_iterations = 0
    /\ events = <<>>
    /\ ExecInit
    /\ ScrapeInit

Raise(exc) == pc' = "aborted" /\ error' = exc

\* run, up to the login: load_config, get_user_files, the roster,
\* load_fname_user_map and get_fname_student_map
LoadInputs ==
    /\ pc = "load"
    /\ \E o \in OperationalConfigs, rp \in BOOLEAN :
            config' = [job_timeout |-> o.job_timeout, grading |-> o.grading,
                       report_path |-> rp]
    /\ \E sc \in RunScenarios :
        /\ user_files' = sc.user_files
        /\ file_question_map' = sc.file_question_map
        /\ fname_user_map' = sc.fname_user_map
        /\ fname_student_map' = GetFnameStudentMap(Roster, sc.fname_user_map)
    /\ students' = Roster
    /\ pc' = "category"
    /\ UNCHANGED <<error, lookupVars, ensureVars, user_submission_map, events,
                   execVars, graded_at, base_dir, scrapeVars>>

\* get_category
GetCategory ==
    /\ pc = "category"
    /\ \E cats \in CategoryLists :
        /\ categories' = cats
        /\ IF FindByTitle(cats, "T") = 0
           THEN Raise("ValueError") /\ category' = category
           ELSE /\ category' = cats[FindByTitle(cats, "T")].id
                /\ pc' = "assessment"
                /\ error' = error
    /\ events' = Append(events, "categories")
    /\ UNCHANGED <<inputVars, assessments, assessment, ensureVars, user_submission_map>>
    /\ UNCHANGED execVars

\* get_assessment
GetAssessment ==
    /\ pc = "assessment"
    /\ \E as \in AssessmentLists :
        /\ assessments' = as
        /\ IF FindByTitle(as, "A") = 0
           THEN Raise("ValueError") /\ assessment' = assessment
           ELSE /\ assessment' = as[FindByTitle(as, "A")].id
                /\ pc' = "fetch"
                /\ error' = error
    /\ events' = Append(events, "assessments")
    /\ UNCHANGED <<inputVars, categories, category, ensureVars, user_submission_map>>
    /\ UNCHANGED execVars

\* ------------------------------------------------------- the platform
Count(subs, st) == Cardinality({s \in Students : subs[s].state = st})

\* auto-grading has finished for the submissions of G
Graded(r, G) ==
    [s \in Students |->
        IF s \in G /\ r[s].state = "submitted"
        THEN [r[s] EXCEPT !.state = "published"] ELSE r[s]]

\* the force-submit job has acted on the students of D
ForceSubmitted(r, D) ==
    [s \in Students |->
        IF s \in D /\ r[s].state \in {"unstarted", "attempting"}
        THEN [state |-> "submitted", hasId |-> TRUE] ELSE r[s]]

\* the unsubmit job has acted on the students of D
Unsubmitted(r, D) ==
    [s \in Students |->
        IF s \in D /\ r[s].state \in {"submitted", "published"}
        THEN [r[s] EXCEPT !.state = "attempting"] ELSE r[s]]

\* get_student_submissions: the index, restricted to the roster's students
GetStudentSubmissions(r, studs) ==
    [s \in Students |->
        IF \E i \in 1..Len(studs) : studs[i].id = s THEN r[s] ELSE NoRecord[s]]

\* run: the first fetch and the map built from it
InitialFetch ==
    /\ pc = "fetch"
    /\ remote' \in [Students -> RemoteRecords]
    /\ student_submissions' = GetStudentSubmissions(remote', students)
    /\ user_submission_map' = student_submissions'
    /\ events' = Append(events, "fetch")
    /\ pc' = "ensure"
    /\ UNCHANGED <<error, inputVars, lookupVars, student_ids, bulk_jobs, submitted_count,
                   polls, max_iterations>>
    /\ UNCHANGED execVars

\* ------------------------------------------- the submission state machine
\* ids of the unstarted submissions only, for comparison
StudentIdsUnstarted(subs) == {s \in Students : subs[s].state = "unstarted"}

\* [s.course_user.id for s in student_submissions]
StudentIds(subs) == {s \in Students : subs[s].state # "none"}

\* a job awaited without the configured timeout, for comparison
BulkJobUntimed(kind, ids, timeout) == [kind |-> kind, ids |-> ids, timeout |-> 0]

\* force_submit_all(ids) or unsubmit_all(ids), and
\* client.jobs.wait_for_completion(job, timeout=timeout)
BulkJob(kind, ids, timeout) == [kind |-> kind, ids |-> ids, timeout |-> timeout]

\* _ensure_submissions_in_attempting_state: student_ids and the force submit
ForceSubmitUnstarted ==
    /\ pc = "ensure"
    /\ student_ids' = StudentIds(student_submissions)
    /\ IF Count(student_submissions, "unstarted") > 0
       THEN \E D \in SUBSET student_ids' :
              \E G \in SUBSET Students :
                /\ remote' = Graded(ForceSubmitted(remote, D), G)
                /\ student_submissions' = GetStudentSubmissions(remote', students)
                /\ bulk_jobs' = Append(bulk_jobs,
                        BulkJob("force_submit", student_ids', config.job_timeout))
                /\ events' = events \o <<"force_submit", "job_wait", "fetch">>
       ELSE UNCHANGED <<remote, student_submissions, bulk_jobs, events>>
    /\ pc' = "grading"
    /\ UNCHANGED <<error, inputVars, lookupVars, user_submission_map, submitted_count,
                   polls, max_iterations>>
    /\ UNCHANGED execVars

\* a // b of Python for b # 0: the quotient rounded towards minus infinity
FloorDiv(a, b) == IF b > 0 THEN a \div b ELSE (0 - a) \div (0 - b)

\* grading_max_wait_seconds // grading_poll_interval_seconds
MaxIterations(grading) == FloorDiv(grading[1], grading[2])

\* a wait that enters the loop whatever the list holds, for comparison
GradingWaitEnterAlwaysPolls ==
    /\ pc = "grading"
    /\ config.grading[2] # 0
    /\ submitted_count' = Count(student_submissions, "submitted")
    /\ max_iterations' = MaxIterations(config.grading)
    /\ pc' = IF max_iterations' > 0 THEN "poll" ELSE "wait_exit"
    /\ polls' = 0
    /\ UNCHANGED <<error, inputVars, lookupVars, remote, student_submissions, student_ids,
                   bulk_jobs, user_submission_map, events>>
    /\ UNCHANGED execVars

\* _wait_for_auto_grading, up to the loop
GradingWaitEnter ==
    /\ pc = "grading"
    /\ IF Count(student_submissions, "submitted") = 0
       THEN pc' = "unsubmit" /\ UNCHANGED <<error, submitted_count, max_iterations>>
       ELSE IF config.grading[2] = 0
       THEN /\ Raise("ZeroDivisionError")
            /\ submitted_count' = Count(student_submissions, "submitted")
            /\ UNCHANGED max_iterations
       ELSE /\ submitted_count' = Count(student_submissions, "submitted")
            /\ max_iterations' = MaxIterations(config.grading)
            /\ pc' = IF max_iterations' > 0 THEN "poll" ELSE "wait_exit"
            /\ error' = error
    /\ polls' = 0
    /\ UNCHANGED <<inputVars, lookupVars, remote, student_submissions, student_ids,
                   bulk_jobs, user_submission_map, events>>
    /\ UNCHANGED execVars

\* one iteration of the polling loop, the platform having finished the
\* grading of the submissions of G since the previous fetch; time.sleep
\* raises ValueError when it is given a negative number of seconds
PollSeeing(G) ==
    /\ pc = "poll"
    /\ remote' = Graded(remote, G)
    /\ student_submissions' = GetStudentSubmissions(remote', students)
    /\ polls' = polls + 1
    /\ LET new_submitted_count == Count(student_submissions', "submitted")
           graded_this_iteration == submitted_count - new_submitted_count
       IN  submitted_count' =
                IF graded_this_iteration > 0 THEN new_submitted_count ELSE submitted_count
    /\ IF submitted_count' = 0
       THEN pc' = "wait_exit" /\ error' = error /\ events' = Append(events, "fetch")
       ELSE /\ events' = events \o <<"fetch", "sleep">>
            /\ IF config.grading[2] < 0
               THEN Raise("ValueError")
               ELSE /\ pc' = IF polls' < max_iterations THEN "poll" ELSE "wait_exit"
                    /\ error' = error
    /\ UNCHANGED <<inputVars, lookupVars, student_ids, bulk_jobs,
                   user_submission_map, max_iterations>>
    /\ UNCHANGED execVars

Poll == \E G \in SUBSET Students : PollSeeing(G)

\* a wait that would not test the last fetched list, for comparison
RemainingSubmittedIgnored(subs) == {}

\* remaining_submitted
RemainingSubmitted(subs) == {s \in Students : subs[s].state = "submitted"}

\* _wait_for_auto_grading, after the loop; its locals end with it
GradingWaitExit ==
    /\ pc = "wait_exit"
    /\ IF RemainingSubmitted(student_submissions) # {}
       THEN Raise("TimeoutError")
       ELSE pc' = "unsubmit" /\ error' = error
    /\ submitted_count' = 0
    /\ max_iterations' = 0
    /\ polls' = 0
    /\ UNCHANGED <<inputVars, lookupVars, remote, student_submissions, student_ids,
                   bulk_jobs, user_submission_map, events>>
    /\ UNCHANGED execVars

\* _ensure_submissions_in_attempting_state: the unsubmit
UnsubmitPublished ==
    /\ pc = "unsubmit"
    /\ IF Count(student_submissions, "published") > 0
       THEN \E D \in SUBSET student_ids :
                /\ remote' = Unsubmitted(remote, D)
                /\ student_submissions' = GetStudentSubmissions(remote', students)
                /\ bulk_jobs' = Append(bulk_jobs,
                        BulkJob("unsubmit", student_ids, config.job_timeout))
                /\ events' = events \o <<"unsubmit", "job_wait", "fetch">>
       ELSE UNCHANGED <<remote, student_submissions, bulk_jobs, events>>
    /\ pc' = "final"
    /\ UNCHANGED <<error, inputVars, lookupVars, user_submission_map, student_ids,
                   submitted_count, polls, max_iterations>>
    /\ UNCHANGED execVars

\* final checks that would test nothing, one record, or only the records
\* that were started, for comparison
AllAttemptingUnchecked(subs) == TRUE

AllAttemptingSome(subs) == \E s \in Students : subs[s].state = "attempting"

AllAttemptingStarted(subs) ==
    \A s \in Students : subs[s].state \in {"none", "unstarted", "attempting"}

\* the assertion over the list: every submission is `attempting`
AllAttempting(subs) ==
    \A s \in Students : subs[s].state # "none" => subs[s].state = "attempting"

\* _ensure_submissions_in_attempting_state: the final verification
FinalCheck ==
    /\ pc = "final"
    /\ IF AllAttempting(student_submissions)
       THEN pc' = "submit_answers" /\ error' = error
       ELSE Raise("AssertionError")
    /\ events' = Append(events, "check")
    /\ UNCHANGED <<inputVars, lookupVars, ensureVars, user_submission_map>>
    /\ UNCHANGED execVars

\* ------------------------------------------------------------ the executor
Titles == {Q1, Q2}

\* What submissions_api.edit returns, per question title: "ok" (the
\* question, its answer id and its answer are there and the answer has
\* files_attributes), "missing" (get_question_answer raises ValueError) or
\* "no_files" (submit_answer raises ValueError).
EditViews ==
    { [t \in Titles |-> "ok"],
      [t \in Titles |-> IF t = Q2 THEN "missing" ELSE "ok"],
      [t \in Titles |-> IF t = Q1 THEN "no_files" ELSE "ok"] }

ReadOutcomes == {"ok", "OSError", "UnicodeDecodeError"}
RemoteOutcomes == {"ok", "OSError"}

Digit(i) == <<"1", "2", "3", "4">>[i]

\* _create_submission_report_entry
CreateSubmissionReportEntry ==
    [student |-> 0, errors |-> <<>>, submitted |-> <<>>, no_match |-> <<>>,
     no_submission |-> <<>>]

MsgNoStudent == <<"N", "t">>
MsgNoSubmission(student) == <<"N", "u", Digit(student)>>
\* a message that would not name the file, for comparison
MsgFailedUnnamed(filename, text) == <<"F", ":", text>>

\* f"Failed to submit {filename}: {e}"
MsgFailed(filename, text) == <<"F">> \o filename \o <<":", text>>
MsgPlaceholder(title, text) == <<"F", "p">> \o title \o <<":", text>>

\* the exception of get_question_answer + _read_file_content/submit_answer,
\* None when the write returned a job; `read` is "ok" for a placeholder
AttemptException(slot, read, remote_call) ==
    IF slot = "missing" THEN "ValueError"
    ELSE IF read # "ok" THEN read
    ELSE IF slot = "no_files" THEN "ValueError"
    ELSE IF remote_call # "ok" THEN remote_call
    ELSE None

\* answer_api.submit_answer was called
RemoteCalled(slot, read) == slot = "ok" /\ read = "ok"

\* str(e), by its first character
ExcText(slot, exc) ==
    IF exc = "ValueError" THEN (IF slot = "missing" THEN "Q" ELSE "A")
    ELSE IF exc = "UnicodeDecodeError" THEN "'"
    ELSE "["

\* a file loop that would catch as little as the placeholder loop, for comparison
CaughtInFileLoopValueErrorOnly(exc) == exc = "ValueError"

\* except (ValueError, OSError, UnicodeDecodeError)
CaughtInFileLoop(exc) == exc \in {"ValueError", "OSError", "UnicodeDecodeError"}

\* except ValueError
CaughtInPlaceholderLoop(exc) == exc = "ValueError"

\* the keys taken from the last to the first, for comparison
CurKeyReversed == user_files[Len(user_files) + 1 - ki][1]

\* the key the loop over user_files.items() is at
CurKey == user_files[ki][1]
CurFiles == user_files[ki][2]
CurStudent == fname_student_map[CurKey]

WriteCall(kind, title, filename, pattern, ok) ==
    [key |-> CurKey, student |-> CurStudent, kind |-> kind, title |-> title,
     file |-> filename, pattern |-> pattern, state |-> remote[CurStudent].state,
     ok |-> ok]

NextKey ==
    /\ ki' = ki + 1
    /\ phase' = "key"
    /\ question_key' = 0
    /\ UNCHANGED <<fi, ri, submitted_questions, submission_jobs, submission_edit>>

\* a report that would be started afresh for each key, for comparison
SetEntryAlone(rep, k, entry) == (k :> entry)

\* report[fname] = <the entry of the key, as _process_user_files leaves it
\* before the loop over the files>
SetEntry(rep, k, entry) == (k :> entry) @@ rep

\* an entry that would not record the missing student, for comparison
NoStudentEntrySilent == CreateSubmissionReportEntry

\* the entry of a key that is not in fname_student_map
NoStudentEntry == [CreateSubmissionReportEntry EXCEPT !.errors = <<MsgNoStudent>>]

\* an entry whose student would be set after the submission test only, for
\* comparison
NoSubmissionEntryStudentUnset(student) ==
    [CreateSubmissionReportEntry EXCEPT !.errors = <<MsgNoSubmission(student)>>]

\* the entry of a key whose student is not in user_submission_map
NoSubmissionEntry(student) ==
    [CreateSubmissionReportEntry EXCEPT
        !.student = student, !.errors = <<MsgNoSubmission(student)>>]

\* submit_answers: the report entry of the next key, and _process_user_files
\* up to the loop over the files
StartKey ==
    /\ pc = "submit_answers"
    /\ phase = "key"
    /\ ki <= Len(user_files)
    /\ LET entry == CreateSubmissionReportEntry
       IN
        IF CurKey \notin DOMAIN fname_student_map
        THEN /\ report' = SetEntry(report, CurKey, NoStudentEntry)
             /\ NextKey
             /\ UNCHANGED <<pc, error, events>>
        ELSE IF user_submission_map[students[CurStudent].id].state = "none"
        THEN /\ report' = SetEntry(report, CurKey, NoSubmissionEntry(CurStudent))
             /\ NextKey
             /\ UNCHANGED <<pc, error, events>>
        ELSE /\ report' = SetEntry(report, CurKey, [entry EXCEPT !.student = CurStudent])
             /\ IF ~user_submission_map[students[CurStudent].id].hasId
                THEN /\ Raise("AssertionError")
                     /\ UNCHANGED <<ki, phase, fi, ri, submitted_questions,
                                    submission_jobs, submission_edit, question_key,
                                    events>>
                ELSE \E r \in RemoteOutcomes :
                        /\ events' = Append(events, "edit")
                        /\ IF r # "ok"
                           THEN /\ Raise(r)
                                /\ UNCHANGED <<ki, phase, fi, ri, submitted_questions,
                                               submission_jobs, submission_edit,
                                               question_key>>
                           ELSE /\ submission_edit' \in EditViews
                                /\ submitted_questions' = {}
                                /\ submission_jobs' = <<>>
                                /\ phase' = "files"
                                /\ fi' = 1
                                /\ ri' = 1
                                /\ UNCHANGED <<pc, error, ki, question_key>>
    /\ UNCHANGED <<inputVars, lookupVars, ensureVars, user_submission_map,
                   all_submission_jobs, writes, saved>>

\* _process_user_files: one iteration of the loop over the files
ProcessFile ==
    /\ pc = "submit_answers"
    /\ phase = "files"
    /\ fi <= Len(CurFiles)
    /\ question_key' = GetQuestionKey(CurFiles[fi], file_question_map)
    /\ LET filename == CurFiles[fi]
       IN
        IF NotQuestionKey(file_question_map, question_key')
        THEN /\ report' = [report EXCEPT ![CurKey].no_match = Append(@, filename)]
             /\ UNCHANGED <<pc, error, events, writes, submission_jobs, submitted_questions>>
        ELSE \E read \in ReadOutcomes, rc \in RemoteOutcomes :
            LET question_title == file_question_map[question_key'][2]
                slot == submission_edit[question_title]
                exc == AttemptException(slot, read, rc)
                called == RemoteCalled(slot, read)
                call == WriteCall("file", question_title, filename, question_key',
                                  exc = None)
            IN
                /\ writes' = IF called THEN Append(writes, call) ELSE writes
                /\ events' = IF called THEN Append(events, "write") ELSE events
                /\ IF exc = None
                   THEN /\ submission_jobs' = Append(submission_jobs, Len(writes'))
                        /\ submitted_questions' = submitted_questions \cup {question_key'}
                        /\ report' = [report EXCEPT ![CurKey].submitted = Append(@, filename)]
                        /\ UNCHANGED <<pc, error>>
                   ELSE IF CaughtInFileLoop(exc)
                   THEN /\ report' = [report EXCEPT ![CurKey].errors =
                                        Append(@, MsgFailed(filename, ExcText(slot, exc)))]
                        /\ UNCHANGED <<pc, error, submission_jobs, submitted_questions>>
                   ELSE /\ Raise(exc)
                        /\ UNCHANGED <<report, submission_jobs, submitted_questions>>
    /\ fi' = IF pc' = "aborted" THEN fi ELSE fi + 1
    /\ UNCHANGED <<inputVars, lookupVars, ensureVars, user_submission_map,
                   all_submission_jobs, ki, phase, ri, submission_edit, saved>>

\* an iteration that would fetch the edit view again, for comparison
ProcessPlaceholderRefetching ==
    /\ pc = "submit_answers"
    /\ phase = "files"
    /\ fi > Len(CurFiles)
    /\ ri <= Len(file_question_map)
    /\ question_key' = ri
    /\ events' = Append(events, "edit")
    /\ submission_edit' \in EditViews
    /\ ri' = ri + 1
    /\ UNCHANGED <<pc, error, writes, submission_jobs, report>>
    /\ UNCHANGED <<inputVars, lookupVars, ensureVars, user_submission_map,
                   all_submission_jobs, ki, phase, fi, submitted_questions, saved>>

\* _process_user_files: one iteration of the loop over file_question_map
ProcessPlaceholder ==
    /\ pc = "submit_answers"
    /\ phase = "files"
    /\ fi > Len(CurFiles)
    /\ ri <= Len(file_question_map)
    /\ question_key' = ri
    /\ IF ri \in submitted_questions
       THEN UNCHANGED <<pc, error, events, writes, submission_jobs, report>>
       ELSE \E rc \in RemoteOutcomes :
            LET question_title == file_question_map[ri][2]
                slot == submission_edit[question_title]
                exc == AttemptException(slot, "ok", rc)
                called == RemoteCalled(slot, "ok")
                call == WriteCall("placeholder", question_title, <<>>, ri, exc = None)
                noted == [report EXCEPT ![CurKey].no_submission = Append(@, question_title)]
            IN
                /\ writes' = IF called THEN Append(writes, call) ELSE writes
                /\ events' = IF called THEN Append(events, "write") ELSE events
                /\ IF exc = None
                   THEN /\ submission_jobs' = Append(submission_jobs, Len(writes'))
                        /\ report' = noted
                        /\ UNCHANGED <<pc, error>>
                   ELSE IF CaughtInPlaceholderLoop(exc)
                   THEN /\ report' = [noted EXCEPT ![CurKey].errors =
                                Append(@, MsgPlaceholder(question_title, ExcText(slot, exc)))]
                        /\ UNCHANGED <<pc, error, submission_jobs>>
                   ELSE /\ Raise(exc)
                        /\ report' = noted
                        /\ UNCHANGED submission_jobs
    /\ ri' = IF pc' = "aborted" THEN ri ELSE ri + 1
    /\ UNCHANGED <<inputVars, lookupVars, ensureVars, user_submission_map,
                   all_submission_jobs, ki, phase, fi, submitted_questions,
                   submission_edit, saved>>

\* a list that would keep the jobs of the last key only, for comparison
ExtendReplaces(all_jobs, jobs) == jobs

\* all_submission_jobs.extend(jobs)
Extend(all_jobs, jobs) == all_jobs \o jobs

\* _process_user_files returns; submit_answers extends its list
EndKey ==
    /\ pc = "submit_answers"
    /\ phase = "files"
    /\ fi > Len(CurFiles)
    /\ ri > Len(file_question_map)
    /\ all_submission_jobs' = Extend(all_submission_jobs, submission_jobs)
    /\ NextKey
    /\ UNCHANGED <<pc, error, inputVars, lookupVars, ensureVars, user_submission_map,
                   events, report, writes, saved>>

\* a sort that would leave the errors as they were appended, for comparison
SortEntryErrorsUnsorted(e) ==
    [e EXCEPT !.submitted = SortList(@), !.no_match = SortList(@),
              !.no_submission = SortList(@)]

\* data["errors"].sort() ... data["no_submission"].sort()
SortEntry(e) ==
    [e EXCEPT !.errors = SortList(@), !.submitted = SortList(@),
              !.no_match = SortList(@), !.no_submission = SortList(@)]

\* submit_answers: the sort of the report and the return
SubmitAnswersReturn ==
    /\ pc = "submit_answers"
    /\ phase = "key"
    /\ ki > Len(user_files)
    /\ report' = [k \in DOMAIN report |-> SortEntry(report[k])]
    /\ pc' = "save"
    /\ UNCHANGED <<error, inputVars, lookupVars, ensureVars, user_submission_map, events,
                   all_submission_jobs, ki, phase, fi, ri, submitted_questions,
                   submission_jobs, submission_edit, question_key, writes, saved>>

\* run: save_report when a report path is configured, and the return
SaveReport ==
    /\ pc = "save"
    /\ saved' = config.report_path
    /\ pc' = "done"
    /\ UNCHANGED <<error, inputVars, lookupVars, ensureVars, user_submission_map, events,
                   report, all_submission_jobs, ki, phase, fi, ri, submitted_questions,
                   submission_jobs, submission_edit, question_key, writes>>

Next ==
    \/ LoadInputs
    \/ GetCategory
    \/ GetAssessment
    \/ InitialFetch
    \/ ForceSubmitUnstarted
    \/ GradingWaitEnter
    \/ Poll
    \/ GradingWaitExit
    \/ UnsubmitPublished
    \/ FinalCheck
    \/ StartKey
    \/ ProcessFile
    \/ ProcessPlaceholder
    \/ EndKey
    \/ SubmitAnswersReturn
    \/ SaveReport

Spec == Init /\ [][Next]_vars

\* ---------------------------------------------------- submit_answers alone
\* The records user_submission_map can hold for a student: none, one
\* without an id, one with an id.
ExecRecords ==
    { [state |-> "none", hasId |-> FALSE],
      [state |-> "unstarted", hasId |-> FALSE],
      [state |-> "attempting", hasId |-> TRUE] }

\* submit_answers called on arguments drawn from the bounded sets, the
\* platform holding an `attempting` submission for every student that has one
InitExec ==
    /\ pc = "submit_answers"
    /\ error = None
    /\ config = [job_timeout |-> 60, grading |-> <<10, 5>>, report_path |-> FALSE]
    /\ students = Roster
    /\ fname_user_map \in Tables
    /\ user_files \in UserFilesChoices
    /\ file_question_map \in RouteTables
    /\ fname_student_map = GetFnameStudentMap(students, fname_user_map)
    /\ categories = <<>>
    /\ category = 0
    /\ assessments = <<>>
    /\ assessment = 0
    /\ user_submission_map \in [Students -> ExecRecords]
    /\ remote = [s \in Students |->
                    IF user_submission_map[s].state = "none" THEN NoRecord[s]
                    ELSE [state |-> "attempting", hasId |-> TRUE]]
    /\ graded_at = Untimed
    /\ base_dir = NoFiles
    /\ student_submissions = remote
    /\ student_ids = StudentIds(remote)
    /\ bulk_jobs = <<>>
    /\ submitted_count = 0
    /\ polls = 0
    /\ max_iterations = 0
    /\ events = <<>>
    /\ ExecInit
    /\ ScrapeInit

NextExec ==
    \/ StartKey
    \/ ProcessFile
    \/ ProcessPlaceholder
    \/ EndKey
    \/ SubmitAnswersReturn

SpecExec == InitExec /\ [][NextExec]_vars

\* ------------------------------------------- get_fname_student_map alone
MaxRoster == 3
MaxTable == 2

ResolverNames == {Name(1), Name(2)}
ResolverEmails == {Email(1), Email(2)}

\* every roster of at most MaxRoster students, ids by position, names and
\* emails possibly shared
Rosters ==
    UNION { { [i \in 1..n |-> [id |-> i, name |-> f[i][1], email |-> f[i][2]]] :
                f \in [1..n -> ResolverNames \X ResolverEmails] } : n \in 0..MaxRoster }

\* every table of at most MaxTable keys; Name(0) and Email(0) are nobody's
TableRows == [name : ResolverNames \cup {Name(0)}, email : ResolverEmails \cup {Email(0)}]

ResolverTables ==
    UNION { { [i \in 1..n |-> <<Digit(i), f[i]>>] : f \in [1..n -> TableRows] } :
                n \in 0..MaxTable }

InitResolve ==
    /\ pc = "resolve"
    /\ error = None
    /\ config = None
    /\ students \in Rosters
    /\ fname_user_map \in ResolverTables
    /\ user_files = <<>>
    /\ file_question_map = <<>>
    /\ fname_student_map = <<>>
    /\ categories = <<>>
    /\ category = 0
    /\ assessments = <<>>
    /\ assessment = 0
    /\ remote = NoRecord
    /\ graded_at = Untimed
    /\ base_dir = NoFiles
    /\ student_submissions = NoRecord
    /\ user_submission_map = NoRecord
    /\ student_ids = {}
    /\ bulk_jobs = <<>>
    /\ submitted_count = 0
    /\ polls = 0
    /\ max_iterations = 0
    /\ events = <<>>
    /\ ExecInit
    /\ ScrapeInit

\* get_fname_student_map
Resolve ==
    /\ pc = "resolve"
    /\ fname_student_map' = GetFnameStudentMap(students, fname_user_map)
    /\ pc' = "resolved"
    /\ UNCHANGED <<error, config, students, fname_user_map, user_files, file_question_map,
                   graded_at, base_dir, scrapeVars, lookupVars, ensureVars, user_submission_map, events,
                   execVars>>

NextResolve == Resolve

SpecResolve == InitResolve /\ [][NextResolve]_vars

\* ------------------------------------------- _wait_for_auto_grading alone
\* (grading_max_wait_seconds, grading_poll_interval_seconds)
WaitConfigs == { <<20, 5>>, <<10, 5>>, <<4, 5>>, <<10, 0>>, <<10, -5>>, <<-10, -5>> }

\* the records of the list the wait is given
WaitRecords ==
    {[state |-> st, hasId |-> TRUE] : st \in {"attempting", "submitted", "published"}}

\* The simulated clock: only time.sleep advances it, so it reads the
\* seconds slept since the wait started.
Now == Cardinality({i \in 1..Len(events) : events[i] = "sleep"}) * config.grading[2]

\* _wait_for_auto_grading called on a list that was just fetched, on a
\* platform that ends the grading of student s at second graded_at[s]
InitWait ==
    /\ pc = "grading"
    /\ error = None
    /\ \E g \in WaitConfigs :
            config = [job_timeout |-> 60, grading |-> g, report_path |-> FALSE]
    /\ students = Roster
    /\ fname_user_map = <<>>
    /\ user_files = <<>>
    /\ file_question_map = <<>>
    /\ fname_student_map = <<>>
    /\ categories = <<>>
    /\ category = 0
    /\ assessments = <<>>
    /\ assessment = 0
    /\ remote \in [Students -> WaitRecords]
    /\ graded_at \in [Students -> 0..((IF config.grading[1] > 0 THEN config.grading[1]
                                                                  ELSE 0) + 1)]
    /\ \A s \in Students : remote[s].state # "submitted" => graded_at[s] = 0
    /\ base_dir = NoFiles
    /\ student_submissions = remote
    /\ user_submission_map = remote
    /\ student_ids = StudentIds(remote)
    /\ bulk_jobs = <<>>
    /\ submitted_count = 0
    /\ polls = 0
    /\ max_iterations = 0
    /\ events = <<>>
    /\ ExecInit
    /\ ScrapeInit

\* one iteration of the polling loop at the simulated time Now
PollTimed == PollSeeing({s \in Students : graded_at[s] <= Now})

NextWait ==
    \/ GradingWaitEnter
    \/ PollTimed
    \/ GradingWaitExit

SpecWait == InitWait /\ [][NextWait]_vars

\* ------------------------------------------------- get_question_key alone
MaxName == 2
MaxRoutes == 2

\* every string of at most n characters of the set
StringsUpTo(chars, n) == UNION { [1..m -> chars] : m \in 0..n }

RouterFilenames == StringsUpTo({"a", "b"}, MaxName)
RouterPatterns == StringsUpTo({"a", "."}, MaxName)

\* every table of at most MaxRoutes distinct patterns, in every order
RouterTables ==
    UNION { { [i \in 1..n |-> <<f[i], Q1>>] :
                f \in { g \in [1..n -> RouterPatterns] :
                            \A i, j \in 1..n : i # j => g[i] # g[j] } } :
                n \in 0..MaxRoutes }

InitRoute ==
    /\ pc = "route"
    /\ error = None
    /\ config = None
    /\ students = <<>>
    /\ fname_user_map = <<>>
    /\ \E filename \in RouterFilenames : user_files = << <<"k1", <<filename>> >> >>
    /\ file_question_map \in RouterTables
    /\ fname_student_map = <<>>
    /\ categories = <<>>
    /\ category = 0
    /\ assessments = <<>>
    /\ assessment = 0
    /\ remote = NoRecord
    /\ graded_at = Untimed
    /\ base_dir = NoFiles
    /\ student_submissions = NoRecord
    /\ user_submission_map = NoRecord
    /\ student_ids = {}
    /\ bulk_jobs = <<>>
    /\ submitted_count = 0
    /\ polls = 0
    /\ max_iterations = 0
    /\ events = <<>>
    /\ ExecInit
    /\ ScrapeInit

\* get_question_key on the one filename of user_files
Route ==
    /\ pc = "route"
    /\ question_key' = GetQuestionKey(CurFiles[1], file_question_map)
    /\ pc' = "routed"
    /\ UNCHANGED <<error, inputVars, lookupVars, ensureVars, user_submission_map, events,
                   report, all_submission_jobs, ki, phase, fi, ri, submitted_questions,
                   submission_jobs, submission_edit, writes, saved>>

NextRoute == Route

SpecRoute == InitRoute /\ [][NextRoute]_vars

\* --------------------------------------------------- get_user_files alone
\* A path is the sequence of its components below base_dir, the last one
\* being the name of the file.
MaxPaths == 2

DirNames == {"k1", "k2"}
FileNames == {<<"a">>, <<"b">>}

\* the name of base_dir itself
BaseDirName == "base"

\* the files at most two directories below base_dir
Paths ==
    {<<f>> : f \in FileNames}
        \cup {<<d, f>> : d \in DirNames, f \in FileNames}
        \cup {<<d1, d2, f>> : d1 \in DirNames, d2 \in DirNames, f \in FileNames}

\* what base_dir.glob(pattern) can yield: distinct paths, in any order
Globs ==
    UNION { {g \in [1..n -> Paths] : \A i, j \in 1..n : g[i] = g[j] => i = j} :
                n \in 0..MaxPaths }

\* filepath.parent.name and filepath.name
ParentName(path) == IF Len(path) >= 2 THEN path[Len(path) - 1] ELSE BaseDirName
FileName(path) == path[Len(path)]

\* position of the pair with the given key in a dict kept as a sequence of
\* <<key, value>> in insertion order, 0 when the key is absent
KeyPosition(dict, key) ==
    IF \E i \in 1..Len(dict) : dict[i][1] = key
    THEN CHOOSE i \in 1..Len(dict) : dict[i][1] = key
    ELSE 0

\* dict[key] = value
DictSet(dict, key, value) ==
    IF KeyPosition(dict, key) # 0
    THEN [dict EXCEPT ![KeyPosition(dict, key)] = <<key, value>>]
    ELSE Append(dict, <<key, value>>)

\* dict[key], the empty dict when the key is absent
DictGet(dict, key) == IF KeyPosition(dict, key) # 0 THEN dict[KeyPosition(dict, key)][2] ELSE <<>>

\* get_user_files: the loop over the first n paths of the glob; the
\* result is { user_dir_name: { filename: filepath } }
RECURSIVE GroupFiles(_, _)
GroupFiles(glob, n) ==
    IF n = 0 THEN <<>>
    ELSE LET grouped == GroupFiles(glob, n - 1)
             filepath == glob[n]
             user_dir_name == ParentName(filepath)
         IN  DictSet(grouped, user_dir_name,
                     DictSet(DictGet(grouped, user_dir_name), FileName(filepath), filepath))

GetUserFiles(glob) == GroupFiles(glob, Len(glob))

\* get_user_files called on a base_dir drawn from the bounded sets; here
\* user_files keeps the inner dicts with their paths, of which the
\* executor above reads the filenames only
InitFiles ==
    /\ pc = "files"
    /\ error = None
    /\ config = None
    /\ students = <<>>
    /\ fname_user_map = <<>>
    /\ user_files = <<>>
    /\ file_question_map = <<>>
    /\ fname_student_map = <<>>
    /\ categories = <<>>
    /\ category = 0
    /\ assessments = <<>>
    /\ assessment = 0
    /\ remote = NoRecord
    /\ graded_at = Untimed
    /\ \E e \in BOOLEAN, d \in BOOLEAN, g \in Globs :
            /\ (~e => ~d)
            /\ (~d => g = <<>>)
            /\ base_dir = [exists |-> e, is_dir |-> d, glob |-> g]
    /\ student_submissions = NoRecord
    /\ user_submission_map = NoRecord
    /\ student_ids = {}
    /\ bulk_jobs = <<>>
    /\ submitted_count = 0
    /\ polls = 0
    /\ max_iterations = 0
    /\ events = <<>>
    /\ ExecInit
    /\ ScrapeInit

\* get_user_files
GroupUserFiles ==
    /\ pc = "files"
    /\ IF ~base_dir.exists \/ ~base_dir.is_dir
       THEN Raise("ValueError") /\ UNCHANGED user_files
       ELSE /\ user_files' = GetUserFiles(base_dir.glob)
            /\ pc' = "grouped"
            /\ error' = error
    /\ UNCHANGED <<config, students, fname_user_map, fname_student_map, file_question_map,
                   graded_at, base_dir, scrapeVars, lookupVars, ensureVars, user_submission_map,
                   events, execVars>>

NextFiles == GroupUserFiles

SpecFiles == InitFiles /\ [][NextFiles]_vars

\* ------------------------------------------- scrape_directory_index alone
\* A URL is the sequence of the characters of its path; OtherHost stands
\* for a URL of another host.
MaxLinks == 2

RootUrl == <<"/">>
DirUrl == <<"/", "a", "/">>
FileUrl == <<"/", "a", "f">>
OtherHost == <<"o", "/">>
Urls == {RootUrl, DirUrl, FileUrl, OtherHost}

\* the url argument: empty, with and without its final slash
StartUrls == {<<>>, RootUrl, <<"/", "a">>}

\* What a request gives: an HTML page, a response that is not HTML, a
\* requests.RequestException, or a page whose processing raises another
\* exception.  `links` are the values of urljoin for the hrefs of the page
\* that the test on href_attr lets through, in the order of the page.
LinkLists == UNION { [1..n -> Urls] : n \in 0..MaxLinks }
Pages ==
    {[kind |-> "html", links |-> l] : l \in LinkLists}
        \cup {[kind |-> k, links |-> <<>>] : k \in {"not_html", "RequestException", "Exception"}}

\* the sites: the two directories answer in any way, the other host holds
\* a page that links back
Sites ==
    {[u \in {RootUrl, DirUrl, OtherHost} |->
            IF u = RootUrl THEN p1
            ELSE IF u = DirUrl THEN p2
            ELSE [kind |-> "html", links |-> <<RootUrl>>]] : p1 \in Pages, p2 \in Pages}

\* url.endswith("/")
EndsWithSlash(u) == u # <<>> /\ u[Len(u)] = "/"

\* path.rstrip("/")
RECURSIVE RStripSlash(_)
RStripSlash(u) == IF EndsWithSlash(u) THEN RStripSlash(SubSeq(u, 1, Len(u) - 1)) ELSE u

\* target_path.startswith(base_path)
PathStartsWith(target_path, base_path) ==
    /\ Len(base_path) <= Len(target_path)
    /\ \A i \in 1..Len(base_path) : target_path[i] = base_path[i]

\* _is_valid_subdirectory: same scheme and host, and the path of the target
\* starts with the path of the base, both without their final slashes
IsValidSubdirectory(base_url, target_url) ==
    /\ target_url # OtherHost
    /\ PathStartsWith(RStripSlash(target_url), RStripSlash(base_url))

\* a list returned as it was collected, for comparison
UniqueLinksUnfiltered(links) == links

\* unique_links: the first occurrence of every link, in order
UniqueLinks(links) ==
    LET first == {i \in 1..Len(links) : \A j \in 1..(i - 1) : links[j] # links[i]}
        RECURSIVE Keep(_)
        Keep(n) == IF n = 0 THEN <<>>
                   ELSE IF n \in first THEN Append(Keep(n - 1), links[n])
                   ELSE Keep(n - 1)
    IN  Keep(Len(links))

\* scrape_directory_index called on a site drawn from the bounded sets
InitScrape ==
    /\ pc = "scrape_start"
    /\ error = None
    /\ \E u \in StartUrls, r \in BOOLEAN : config = [url |-> u, recursive |-> r]
    /\ students = <<>>
    /\ fname_user_map = <<>>
    /\ user_files = <<>>
    /\ file_question_map = <<>>
    /\ fname_student_map = <<>>
    /\ categories = <<>>
    /\ category = 0
    /\ assessments = <<>>
    /\ assessment = 0
    /\ remote = NoRecord
    /\ graded_at = Untimed
    /\ base_dir = NoFiles
    /\ student_submissions = NoRecord
    /\ user_submission_map = NoRecord
    /\ student_ids = {}
    /\ bulk_jobs = <<>>
    /\ submitted_count = 0
    /\ polls = 0
    /\ max_iterations = 0
    /\ events = <<>>
    /\ ExecInit
    /\ url = <<>>
    /\ site \in Sites
    /\ queue = <<>>
    /\ visited = {}
    /\ all_links = <<>>
    /\ unique_links = <<>>
    /\ fetched = <<>>

\* scrape_directory_index, up to the loop
ScrapeStart ==
    /\ pc = "scrape_start"
    /\ IF config.url = <<>>
       THEN Raise("ValueError") /\ UNCHANGED <<url, queue>>
       ELSE /\ url' = IF EndsWithSlash(config.url) THEN config.url
                      ELSE Append(config.url, "/")
            /\ queue' = <<url'>>
            /\ pc' = "scrape"
            /\ error' = error
    /\ UNCHANGED <<config, students, fname_user_map, user_files, fname_student_map,
                   file_question_map, graded_at, base_dir, site, visited, all_links,
                   unique_links, fetched, lookupVars, ensureVars, user_submission_map,
                   events, execVars>>

\* one iteration of `while queue`
ScrapeVisit ==
    /\ pc = "scrape"
    /\ queue # <<>>
    /\ LET current_url == Head(queue)
       IN  IF current_url \in visited
           THEN /\ queue' = Tail(queue)
                /\ UNCHANGED <<visited, all_links, fetched>>
           ELSE /\ visited' = visited \cup {current_url}
                /\ fetched' = Append(fetched, current_url)
                /\ IF site[current_url].kind # "html"
                   THEN /\ queue' = Tail(queue)
                        /\ UNCHANGED all_links
                   ELSE LET page_links ==
                                SelectSeq(site[current_url].links,
                                          LAMBDA full_url : IsValidSubdirectory(url, full_url))
                            sub_urls ==
                                SelectSeq(page_links,
                                          LAMBDA sub_url : /\ EndsWithSlash(sub_url)
                                                           /\ sub_url \notin visited')
                        IN  /\ all_links' = all_links \o page_links
                            /\ queue' = IF config.recursive THEN Tail(queue) \o sub_urls
                                         ELSE Tail(queue)
    /\ UNCHANGED <<pc, error, config, students, fname_user_map, user_files,
                   fname_student_map, file_question_map, graded_at, base_dir, url, site,
                   unique_links, lookupVars, ensureVars, user_submission_map, events,
                   execVars>>

\* the removal of the duplicates and the return
ScrapeReturn ==
    /\ pc = "scrape"
    /\ queue = <<>>
    /\ unique_links' = UniqueLinks(all_links)
    /\ pc' = "scraped"
    /\ UNCHANGED <<error, config, students, fname_user_map, user_files,
                   fname_student_map, file_question_map, graded_at, base_dir, url, site,
                   queue, visited, all_links, fetched, lookupVars, ensureVars,
                   user_submission_map, events, execVars>>

NextScrape ==
    \/ ScrapeStart
    \/ ScrapeVisit
    \/ ScrapeReturn

\* the function runs on: no step of it waits for anything but the reply to
\* a request, which has a timeout
SpecScrape == InitScrape /\ [][NextScrape]_vars /\ WF_vars(NextScrape)

\* ================================================================ claims
EventCount(e) == Cardinality({i \in 1..Len(events) : events[i] = e})

\* run is past _ensure_submissions_in_attempting_state, which returned
EnsureReturned == pc \in {"submit_answers", "save", "done"}

\* C1: every answer-write call, of a file's content or of the placeholder,
\* targets a submission that is `attempting` on the platform when the call
\* is made.
C1_WritesOnlyWhileAttempting ==
    \A i \in 1..Len(writes) : writes[i].state = "attempting"

\* a run that force-submitted and unsubmitted and then wrote a file and a
\* placeholder
C1_Witness ==
    /\ EventCount("force_submit") = 1
    /\ EventCount("unsubmit") = 1
    /\ \E i, j \in 1..Len(writes) :
            writes[i].kind = "file" /\ writes[j].kind = "placeholder"

\* an answer write of this kind to the student's slot of the question succeeded
Written(kind, student, title) ==
    \E i \in 1..Len(writes) :
        /\ writes[i].ok
        /\ writes[i].kind = kind
        /\ writes[i].student = student
        /\ writes[i].title = title

\* the students that a key of user_files resolves to and that have a submission
ResolvedPairs ==
    {fname_student_map[user_files[k][1]] :
        k \in {x \in 1..Len(user_files) :
                /\ user_files[x][1] \in DOMAIN fname_student_map
                /\ user_submission_map[
                        students[fname_student_map[user_files[x][1]]].id].state # "none"}}

\* no "Failed to submit ..." message in the report
NothingFailed ==
    \A k \in DOMAIN report :
        \A i \in 1..Len(report[k].errors) : report[k].errors[i][1] # "F"

\* C2: when submit_answers has completed, for every student that a
\* processed key resolves to and that has a submission, and every question
\* of the route table, exactly one of the two holds: the content of a file
\* was written to the question's answer slot, the placeholder was written
\* to it.  Stated for the runs in which no lookup, read or write failed.
C2_ExactlyOneOfFileOrPlaceholder ==
    (pc = "save" /\ NothingFailed) =>
        \A st \in ResolvedPairs :
            \A r \in 1..Len(file_question_map) :
                Written("file", st, file_question_map[r][2])
                    # Written("placeholder", st, file_question_map[r][2])

\* C3: when _ensure_submissions_in_attempting_state has returned, every
\* submission of the list it returned is `attempting`, and so is that of
\* every student whose submission was `unstarted` on entry.
C3_ReturnedListAllAttempting ==
    EnsureReturned =>
        \A s \in Students :
            /\ student_submissions[s].state \in {"none", "attempting"}
            /\ user_submission_map[s].state = "unstarted"
                    => student_submissions[s].state = "attempting"

\* it returned for a cohort with an `unstarted` and a `published` submission
C3_Witness ==
    /\ EnsureReturned
    /\ \E s, t \in Students :
            /\ user_submission_map[s].state = "unstarted"
            /\ user_submission_map[t].state = "published"

\* C4: when the list fetched after the force-submit, the grading wait and
\* the unsubmit holds a submission that is not `attempting`, the run ends
\* with an AssertionError, no answer write is issued and no report is saved.
C4_FinalAssertionAborts ==
    ( /\ EventCount("check") = 1
      /\ \E s \in Students : student_submissions[s].state \notin {"none", "attempting"} )
        => /\ pc = "aborted"
           /\ error = "AssertionError"
           /\ writes = <<>>
           /\ EventCount("edit") = 0
           /\ ~saved

\* the final check met a `published` submission that the unsubmit job left
C4_Witness ==
    /\ EventCount("check") = 1
    /\ EventCount("unsubmit") = 1
    /\ \E s \in Students : student_submissions[s].state = "published"
    /\ pc = "aborted"

\* what holds in every state of the grading wait and after it
C5_Inv ==
    /\ pc = "unsubmit" => Count(student_submissions, "submitted") = 0
    /\ error = "TimeoutError" =>
            /\ pc = "aborted"
            /\ Count(student_submissions, "submitted") > 0
            /\ EventCount("unsubmit") = 0
            /\ writes = <<>>
            /\ ~saved
    /\ (pc = "wait_exit" /\ Count(student_submissions, "submitted") > 0)
            => (polls + 1) * config.grading[2] > config.grading[1]

\* the step that leaves the wait with a submission still `submitted`
C5_Step ==
    (pc = "wait_exit" /\ Count(student_submissions, "submitted") > 0)
        => (pc' = "aborted" /\ error' = "TimeoutError")

RoutedFileStep ==
    /\ pc = "submit_answers"
    /\ phase = "files"
    /\ fi <= Len(CurFiles)
    /\ ~NotQuestionKey(file_question_map, GetQuestionKey(CurFiles[fi], file_question_map))

\* a step on a routed file that yields no job
C6_Step ==
    (RoutedFileStep /\ submission_jobs' = submission_jobs)
        => /\ pc' = "submit_answers"
           /\ error' = None
           /\ ki' = ki /\ phase' = "files" /\ fi' = fi + 1
           /\ \E text \in {"Q", "A", "[", "'"} :
                report'[CurKey].errors =
                    Append(report[CurKey].errors, <<"F">> \o CurFiles[fi] \o <<":", text>>)
           /\ report'[CurKey].submitted = report[CurKey].submitted
           /\ CurFiles[fi] \notin Range(report'[CurKey].submitted)

UncoveredRouteStep ==
    /\ pc = "submit_answers"
    /\ phase = "files"
    /\ fi > Len(CurFiles)
    /\ ri <= Len(file_question_map)
    /\ ri \notin submitted_questions

\* a placeholder step that yields no job
C7_Step ==
    (UncoveredRouteStep /\ submission_jobs' = submission_jobs)
        => /\ pc' = "submit_answers"
           /\ error' = None
           /\ ri' = ri + 1
           /\ Len(report'[CurKey].errors) = Len(report[CurKey].errors) + 1

\* C7: a failure while the placeholder of an uncovered question is written
\* (slot lookup or remote write) is caught and recorded in the key's
\* errors; the executor goes on with the next question.
C7_PlaceholderFailureCaught == [][C7_Step]_vars

\* the step that starts a key
C8_Step ==
    (pc = "submit_answers" /\ phase = "key" /\ ki <= Len(user_files))
        => /\ pc' = "submit_answers"
           /\ error' = None

\* C8: an error local to one student (its submission record has no id, the
\* fetch of its edit view fails) does not end the batch: the executor goes
\* on and every key gets its report entry.
C8_StudentErrorNeverAborts == [][C8_Step]_vars

\* the item with this id is the first of the list that has the title
FirstWithTitle(items, title, id) ==
    \E i \in 1..Len(items) :
        /\ items[i].id = id
        /\ items[i].title = title
        /\ \A j \in 1..(i - 1) : items[j].title # title

HasTitle(items, title) == \E i \in 1..Len(items) : items[i].title = title

\* C9: when no category, or no assessment of the category found, has the
\* configured title, run ends with ValueError before any submission list
\* is fetched and before any job or write; otherwise the first item in
\* list order that has the title is the one used.
C9_NotFoundAbortsFirstMatchUsed ==
    /\ (pc \notin {"load", "category"} /\ ~HasTitle(categories, "T"))
            => /\ pc = "aborted" /\ error = "ValueError"
               /\ events = <<"categories">>
               /\ writes = <<>>
    /\ (pc \notin {"load", "category", "assessment"} /\ HasTitle(categories, "T")
            /\ ~HasTitle(assessments, "A"))
            => /\ pc = "aborted" /\ error = "ValueError"
               /\ events = <<"categories", "assessments">>
               /\ writes = <<>>
    /\ category # 0 => FirstWithTitle(categories, "T", category)
    /\ assessment # 0 => FirstWithTitle(assessments, "A", assessment)

\* the category was the first of two with the title and the assessment was
\* not found
C9_Witness ==
    /\ category # 0
    /\ Cardinality({i \in 1..Len(categories) : categories[i].title = "T"}) = 2
    /\ assessments # <<>>
    /\ ~HasTitle(assessments, "A")
    /\ pc = "aborted"

\* C10: a key of the table whose email is the email of a roster student is
\* mapped to the student indexed under that email (the last one in the
\* roster that has it), whatever its name matches.
C10_EmailMatchPreferred ==
    pc = "resolved" =>
        \A r \in 1..Len(fname_user_map) :
            LET k == fname_user_map[r][1]
                email == fname_user_map[r][2].email
            IN  (\E j \in 1..Len(students) : students[j].email = email)
                    => /\ k \in DOMAIN fname_student_map
                       /\ students[fname_student_map[k]].email = email
                       /\ \A j \in (fname_student_map[k] + 1)..Len(students) :
                                students[j].email # email

\* a key whose email is one student's and whose name is only another's
C10_Witness ==
    /\ pc = "resolved"
    /\ \E r \in 1..Len(fname_user_map) :
        \E i, j \in 1..Len(students) :
            /\ students[i].email = fname_user_map[r][2].email
            /\ students[j].name = fname_user_map[r][2].name
            /\ students[j].email # fname_user_map[r][2].email
            /\ students[i].name # fname_user_map[r][2].name

\* the regex `pattern` matches the whole of the string `text`
FullMatch(pattern, text) ==
    /\ Len(pattern) = Len(text)
    /\ \A i \in 1..Len(text) : pattern[i] \in {".", text[i]}

\* the regex matches some prefix of the filename: a match that starts at
\* position 0, whatever follows it
MatchesAtStart(pattern, filename) ==
    \E n \in 0..Len(filename) : FullMatch(pattern, SubSeq(filename, 1, n))

\* C11: get_question_key returns the first pattern, in declaration order,
\* whose regex matches the filename from position 0 (what follows the match
\* is ignored), and returns None exactly when no pattern of the table
\* matches.
C11_RouterFirstMatch ==
    pc = "routed" =>
        LET filename == CurFiles[1]
            Matching == {i \in 1..Len(file_question_map) :
                            MatchesAtStart(file_question_map[i][1], filename)}
        IN  /\ question_key = 0 <=> Matching = {}
            /\ question_key # 0 =>
                    /\ question_key \in Matching
                    /\ \A j \in Matching : question_key <= j

\* the first pattern was returned although the second matches too, for a
\* filename longer than the pattern
C11_Witness ==
    /\ pc = "routed"
    /\ Len(file_question_map) = 2
    /\ question_key = 1
    /\ MatchesAtStart(file_question_map[2][1], CurFiles[1])
    /\ Len(CurFiles[1]) > Len(file_question_map[1][1])
    /\ Len(file_question_map[1][1]) > 0

\* s <= t in the lexicographic order of the characters
RECURSIVE LexLeq(_, _)
LexLeq(s, t) ==
    IF s = <<>> THEN TRUE
    ELSE IF t = <<>> THEN FALSE
    ELSE IF s[1] = t[1] THEN LexLeq(Tail(s), Tail(t))
    ELSE Ord(s[1]) < Ord(t[1])

Ascending(l) == \A i \in 1..(Len(l) - 1) : LexLeq(l[i], l[i + 1])

\* submit_answers has returned its report
SubmitAnswersReturned == pc \in {"save", "done"}

\* C12: in the report that submit_answers returns, the lists `submitted`,
\* `no_match`, `no_submission` and `errors` of every key are in ascending
\* lexicographic order.
C12_ReportListsSorted ==
    SubmitAnswersReturned =>
        \A k \in DOMAIN report :
            /\ Ascending(report[k].submitted)
            /\ Ascending(report[k].no_match)
            /\ Ascending(report[k].no_submission)
            /\ Ascending(report[k].errors)

\* "ab" was written before "a" and listed after it; two errors were
\* recorded in one entry
C12_Witness ==
    /\ SubmitAnswersReturned
    /\ \E k \in DOMAIN report :
        /\ report[k].submitted = << <<"a">>, <<"a", "b">> >>
        /\ \E i, j \in 1..Len(writes) :
            /\ i < j
            /\ writes[i].key = k /\ writes[i].file = <<"a", "b">> /\ writes[i].ok
            /\ writes[j].key = k /\ writes[j].file = <<"a">> /\ writes[j].ok
    /\ \E k \in DOMAIN report : Len(report[k].errors) >= 2

\* the files of a key of user_files
FilesOf(k) == user_files[CHOOSE i \in 1..Len(user_files) : user_files[i][1] = k][2]

\* the keys whose files the executor went through: a student was resolved
\* and has a submission record
ProcessedKeys ==
    {k \in DOMAIN report :
        /\ k \in DOMAIN fname_student_map
        /\ user_submission_map[fname_student_map[k]].state # "none"}

\* some pattern of the route table matches the filename
HasRoute(filename) ==
    \E i \in 1..Len(file_question_map) :
        MatchesAtStart(file_question_map[i][1], filename)

\* the first pattern of the table that matches the filename is the i-th
RoutedTo(filename, i) ==
    /\ MatchesAtStart(file_question_map[i][1], filename)
    /\ \A j \in 1..(i - 1) : ~MatchesAtStart(file_question_map[j][1], filename)

\* C13: when submit_answers has returned, for every processed key with no
\* failure: `submitted` holds exactly the key's filenames that have a
\* route, `no_match` exactly those that have none, no write was issued for
\* a file without a route, and the title of a question whose pattern was
\* covered by a submitted file is not in `no_submission`.
C13_SubmittedAndNoMatchExact ==
    SubmitAnswersReturned =>
        \A k \in ProcessedKeys :
            report[k].errors = <<>> =>
                /\ Range(report[k].submitted) = {f \in Range(FilesOf(k)) : HasRoute(f)}
                /\ Range(report[k].no_match) = {f \in Range(FilesOf(k)) : ~HasRoute(f)}
                /\ \A w \in 1..Len(writes) :
                        (writes[w].key = k /\ writes[w].kind = "file") => HasRoute(writes[w].file)
                /\ \A i \in 1..Len(file_question_map) :
                        (\E f \in Range(report[k].submitted) : RoutedTo(f, i))
                            => file_question_map[i][2] \notin Range(report[k].no_submission)

\* the titles of the route table
RouteTitles == {file_question_map[i][2] : i \in 1..Len(file_question_map)}

\* the write calls of a kind made for a key to the slot of a question
WritesFor(k, kind, title) ==
    {w \in 1..Len(writes) :
        writes[w].key = k /\ writes[w].kind = kind /\ writes[w].title = title}

\* C14: when submit_answers has returned, for every processed key with no
\* failure, `no_submission` holds exactly the titles of the questions of the
\* route table to which no file of the key was submitted, and exactly one
\* placeholder write was issued to the slot of each of them.
C14_NoSubmissionExact ==
    SubmitAnswersReturned =>
        \A k \in ProcessedKeys :
            report[k].errors = <<>> =>
                LET Uncovered == {t \in RouteTitles :
                                    \A w \in WritesFor(k, "file", t) : ~writes[w].ok}
                IN  /\ Range(report[k].no_submission) = Uncovered
                    /\ \A t \in Uncovered :
                            Cardinality(WritesFor(k, "placeholder", t)) = 1

\* maxWait = 20, pollInterval = 5, and the last submission that was
\* `submitted` when the wait started leaves that state at second 12
GradedAtTwelve ==
    /\ config.grading = <<20, 5>>
    /\ \E s \in Students : user_submission_map[s].state = "submitted" /\ graded_at[s] = 12
    /\ \A s \in Students : user_submission_map[s].state = "submitted" => graded_at[s] <= 12

\* _wait_for_auto_grading has returned its list
WaitReturned == pc = "unsubmit"

\* C15: in that scenario the wait does not raise the timeout and, when it
\* has returned, it has fetched the submission list exactly 3 times.
C15_ThreeFetches ==
    GradedAtTwelve =>
        /\ pc # "aborted"
        /\ WaitReturned => EventCount("fetch") = 3

\* the executor is about to start a key
AtKey(k) ==
    /\ pc = "submit_answers"
    /\ phase = "key"
    /\ ki <= Len(user_files)
    /\ user_files[ki][1] = k

\* the step that handles a key leaves the remote platform alone and moves
\* to the next key
SkipsKey ==
    /\ events' = events
    /\ writes' = writes
    /\ all_submission_jobs' = all_submission_jobs
    /\ pc' = "submit_answers"
    /\ phase' = "key"
    /\ ki' = ki + 1

\* the keys of user_files reached so far that have no resolved student
NoStudentKeys == {k \in DOMAIN report : k \notin DOMAIN fname_student_map}

C16_Inv ==
    \A k \in NoStudentKeys :
        /\ report[k] = [student |-> 0, errors |-> <<MsgNoStudent>>, submitted |-> <<>>,
                        no_match |-> <<>>, no_submission |-> <<>>]
        /\ \A w \in 1..Len(writes) : writes[w].key # k

C16_Step ==
    \A k \in {user_files[i][1] : i \in 1..Len(user_files)} :
        (AtKey(k) /\ k \notin DOMAIN fname_student_map) => SkipsKey

\* C16: for a key of user_files with no resolved student the executor
\* records the one error 'No matching student found', leaves `student`
\* absent and `submitted`, `no_match`, `no_submission` empty, makes no remote
\* call for the key and goes on to the next key.
C16_NoStudentSkipped == [](C16_Inv) /\ [][C16_Step]_vars

\* the first key had no student and a later key got a write
C16_Witness ==
    /\ SubmitAnswersReturned
    /\ Len(user_files) >= 2
    /\ user_files[1][1] \in NoStudentKeys
    /\ \E w \in 1..Len(writes) : writes[w].key = user_files[2][1]

\* the keys reached so far whose student has no record in user_submission_map
NoSubmissionKeys ==
    {k \in DOMAIN report :
        /\ k \in DOMAIN fname_student_map
        /\ user_submission_map[fname_student_map[k]].state = "none"}

C17_Inv ==
    \A k \in NoSubmissionKeys :
        /\ report[k].student = fname_student_map[k]
        /\ Len(report[k].errors) = 1
        /\ Digit(fname_student_map[k]) \in Range(report[k].errors[1])
        /\ report[k].submitted = <<>>
        /\ report[k].no_match = <<>>
        /\ report[k].no_submission = <<>>
        /\ \A w \in 1..Len(writes) : writes[w].key # k

C17_Step ==
    \A k \in {user_files[i][1] : i \in 1..Len(user_files)} :
        ( /\ AtKey(k)
          /\ k \in DOMAIN fname_student_map
          /\ user_submission_map[fname_student_map[k]].state = "none" ) => SkipsKey

\* C17: for a key whose resolved student has no record in
\* user_submission_map the executor records one error that names the
\* student, sets `student`, leaves `submitted`, `no_match`, `no_submission`
\* empty, makes no remote call for the key and goes on to the next key.
C17_NoSubmissionSkipped == [](C17_Inv) /\ [][C17_Step]_vars

\* the first key's student had no submission and a later key got a write
C17_Witness ==
    /\ SubmitAnswersReturned
    /\ Len(user_files) >= 2
    /\ user_files[1][1] \in NoSubmissionKeys
    /\ \E w \in 1..Len(writes) : writes[w].key = user_files[2][1]

\* the answer-write calls that returned a job
SucceededWrites == {w \in 1..Len(writes) : writes[w].ok}

\* the filenames listed as submitted, key by key
SubmittedEntries ==
    UNION { {<<k, i>> : i \in 1..Len(report[k].submitted)} : k \in DOMAIN report }

UnresolvedTableKeys ==
    {k \in {fname_user_map[r][1] : r \in 1..Len(fname_user_map)} :
        \A r \in 1..Len(fname_user_map) :
            fname_user_map[r][1] = k =>
                \A i \in 1..Len(students) :
                    /\ students[i].email # fname_user_map[r][2].email
                    /\ students[i].name # fname_user_map[r][2].name}

\* C19: in the report that submit_answers returns, every key of the table
\* for which identity resolution failed has an entry, and the entry has an
\* error.
C19_ResolutionMissInReport ==
    SubmitAnswersReturned =>
        \A k \in UnresolvedTableKeys :
            /\ k \in DOMAIN report
            /\ report[k].errors # <<>>

UserFilesKeys == {user_files[i][1] : i \in 1..Len(user_files)}

\* the report that is returned has the keys of user_files and no other
C20_Inv == SubmitAnswersReturned => DOMAIN report = UserFilesKeys

\* a step of the loop over user_files, the key k being the current one:
\* the entry of k is created when the key is started and only then, and
\* the entries of the other keys stay as they are
C20_Step ==
    \A k \in UserFilesKeys :
        (pc = "submit_answers" /\ ki <= Len(user_files) /\ user_files[ki][1] = k) =>
            /\ phase = "key" => k \notin DOMAIN report
            /\ phase = "files" => k \in DOMAIN report
            /\ DOMAIN report' = DOMAIN report \cup {k}
            /\ \A j \in DOMAIN report : j # k => report'[j] = report[j]

\* C20: when submit_answers returns, the report has one entry for each key
\* of user_files and no other key; an entry is created once, when its key
\* is started, and while a key is processed only its entry is modified.
C20_OneEntryPerKey == [](C20_Inv) /\ [][C20_Step]_vars

\* two keys were processed and each entry holds something
C20_Witness ==
    /\ SubmitAnswersReturned
    /\ Cardinality(DOMAIN report) >= 2
    /\ \A k \in DOMAIN report :
            Len(report[k].submitted) + Len(report[k].errors) + Len(report[k].no_match) > 0
    /\ \E k \in DOMAIN report : report[k].submitted # <<>>

\* a force-submit or an unsubmit job was issued in the run
Mutated == EventCount("force_submit") + EventCount("unsubmit") > 0

\* the executor starts a key whose student has a record in
\* user_submission_map: it takes the record, its id opens the edit view
UsesRecordOf(s) ==
    /\ pc = "submit_answers"
    /\ phase = "key"
    /\ ki <= Len(user_files)
    /\ user_files[ki][1] \in DOMAIN fname_student_map
    /\ fname_student_map[user_files[ki][1]] = s
    /\ user_submission_map[s].state # "none"

\* C21: the submission record that the executor uses for a student is the
\* record of the list fetched after the last force-submit or unsubmit of
\* the run, never one fetched before such a call.
C21_Step ==
    \A s \in Students :
        (Mutated /\ UsesRecordOf(s)) => user_submission_map[s] = student_submissions[s]

C21_RecordFetchedAfterLastMutation == [][C21_Step]_vars

\* the bulk jobs of one kind issued so far
JobsOfKind(kind) == SelectSeq(bulk_jobs, LAMBDA j : j.kind = kind)

\* the students that have a submission in the list run fetched first, which
\* is the list _ensure_submissions_in_attempting_state is entered with
EntryCohort == {s \in Students : user_submission_map[s].state # "none"}
UnstartedOnEntry == {s \in Students : user_submission_map[s].state = "unstarted"}

\* the force-submit decision of the run has been taken
ForceSubmitDecided == EventCount("fetch") >= 1 /\ pc # "ensure"

\* every call of the given kind in events is followed by the wait for its
\* job and then by a fetch of the submission list
AwaitedAndRefetched(kind) ==
    \A i \in 1..Len(events) :
        events[i] = kind =>
            /\ i + 2 <= Len(events)
            /\ events[i + 1] = "job_wait"
            /\ events[i + 2] = "fetch"

\* C22: if a submission is unstarted on entry, exactly one force-submit job
\* is issued, it carries the id of every student of the cohort, it is
\* awaited with the configured job timeout and the list is fetched again;
\* if no submission is unstarted, no force-submit job is issued.
C22_ForceSubmitOnceForWholeCohort ==
    /\ Len(JobsOfKind("force_submit")) = EventCount("force_submit")
    /\ ForceSubmitDecided =>
            Len(JobsOfKind("force_submit")) = IF UnstartedOnEntry # {} THEN 1 ELSE 0
    /\ ~ForceSubmitDecided => Len(JobsOfKind("force_submit")) = 0
    /\ \A i \in 1..Len(bulk_jobs) :
            bulk_jobs[i].kind = "force_submit" =>
                /\ bulk_jobs[i].ids = EntryCohort
                /\ bulk_jobs[i].timeout = config.job_timeout
    /\ AwaitedAndRefetched("force_submit")
    /\ pc = "grading" => student_submissions = GetStudentSubmissions(remote, students)

\* a force-submit job was issued for a cohort of two in which one
\* submission was unstarted and the other was not
C22_Witness ==
    /\ pc = "grading"
    /\ Len(JobsOfKind("force_submit")) = 1
    /\ Cardinality(EntryCohort) = 2
    /\ Cardinality(UnstartedOnEntry) = 1
    /\ student_submissions # user_submission_map

\* positions of an event in events
EventPositions(e) == {i \in 1..Len(events) : events[i] = e}

C23_Inv ==
    /\ Len(JobsOfKind("unsubmit")) = EventCount("unsubmit")
    /\ Len(JobsOfKind("unsubmit")) <= 1
    /\ \A i \in 1..Len(bulk_jobs) :
            bulk_jobs[i].kind = "unsubmit" =>
                /\ bulk_jobs[i].ids = EntryCohort
                /\ bulk_jobs[i].timeout = config.job_timeout
    /\ AwaitedAndRefetched("unsubmit")
    /\ \A i \in EventPositions("unsubmit"), c \in EventPositions("check") : i + 2 < c
    /\ pc = "final" => student_submissions = GetStudentSubmissions(remote, students)

C23_Step ==
    IF pc = "unsubmit"
    THEN IF \E s \in Students : student_submissions[s].state = "published"
         THEN /\ Len(JobsOfKind("unsubmit")') = Len(JobsOfKind("unsubmit")) + 1
              /\ pc' = "final"
         ELSE bulk_jobs' = bulk_jobs
    ELSE JobsOfKind("unsubmit")' = JobsOfKind("unsubmit")

\* C23: if a submission is published when the grading wait has returned,
\* exactly one unsubmit job is issued, for the whole cohort, awaited with the
\* configured job timeout, and the list is fetched again before the final
\* check; if no submission is published then, no unsubmit job is issued.
C23_UnsubmitOnceForWholeCohort == [](C23_Inv) /\ [][C23_Step]_vars

\* an unsubmit job was issued for a cohort of two of which one submission
\* was attempting all along
C23_Witness ==
    /\ pc = "final"
    /\ Len(JobsOfKind("unsubmit")) = 1
    /\ Cardinality(EntryCohort) = 2
    /\ \E s \in Students : user_submission_map[s].state = "attempting"
    /\ student_submissions # user_submission_map

\* every event e1 of the run comes before every event e2
AllBefore(e1, e2) == \A i \in EventPositions(e1), j \in EventPositions(e2) : i < j

\* force-submit, grading wait, unsubmit, final check and answer writes
\* come in this order
C24_FixedOrder ==
    /\ AllBefore("force_submit", "sleep")
    /\ AllBefore("force_submit", "unsubmit")
    /\ AllBefore("sleep", "unsubmit")
    /\ AllBefore("unsubmit", "check")
    /\ AllBefore("check", "edit")
    /\ AllBefore("check", "write")
    /\ (EventCount("edit") + EventCount("write") > 0 \/ writes # <<>>) =>
            EventCount("check") = 1

\* the wait, the unsubmit and the final check decide on the list of the
\* latest fetch, which no job has followed
C24_StateMachineDecidesOnFreshList ==
    pc \in {"grading", "unsubmit", "final"} =>
        student_submissions = GetStudentSubmissions(remote, students)

\* the executor decides on a record that shows what the latest fetch
\* showed, a submission that is attempting
C24_ExecutorDecidesOnFreshList ==
    \A s \in Students :
        (Mutated /\ UsesRecordOf(s)) => user_submission_map[s].state = "attempting"

\* C24: force-submit, grading wait, unsubmit, final check and answer writes
\* happen in this order: no unsubmit job before a force-submit job, no
\* answer write before the final check, and every decision that follows a
\* remote mutation is taken on a list fetched after that mutation.
C24_OrderAndFreshDecisions ==
    /\ C24_FixedOrder
    /\ C24_StateMachineDecidesOnFreshList
    /\ C24_ExecutorDecidesOnFreshList

\* the submissions that are submitted in the list the wait is entered with
SubmittedOnEntry == {s \in Students : user_submission_map[s].state = "submitted"}
NoneSubmittedNow == \A s \in Students : student_submissions[s].state # "submitted"
LastEvent == IF events = <<>> THEN "none" ELSE events[Len(events)]

C25_Inv ==
    /\ SubmittedOnEntry = {} =>
            /\ events = <<>>
            /\ student_submissions = user_submission_map
            /\ pc \in {"grading", "unsubmit"}
    /\ \A i \in 1..(Len(events) - 1) : events[i] = "fetch" => events[i + 1] = "sleep"
    /\ LastEvent = "fetch" =>
            /\ NoneSubmittedNow
            /\ student_submissions = GetStudentSubmissions(remote, students)
            /\ pc \in {"wait_exit", "unsubmit"}
    /\ (WaitReturned /\ SubmittedOnEntry # {}) => LastEvent = "fetch"

C25_Step ==
    /\ LastEvent = "fetch" => (events' = events /\ student_submissions' = student_submissions)
    /\ (EventCount("fetch")' > EventCount("fetch")
            /\ \A s \in Students : student_submissions'[s].state # "submitted")
        => events' = Append(events, "fetch")

\* C25: the grading wait fetches nothing and does not sleep when no
\* submission is submitted on entry; otherwise it stops at the first fetch
\* that shows no submitted submission, without sleeping again, and returns
\* the list of that fetch.
C25_WaitStopsAtFirstCleanFetch == [](C25_Inv) /\ [][C25_Step]_vars

\* the wait returned after two sleeps, at its third fetch
C25_Witness ==
    /\ WaitReturned
    /\ SubmittedOnEntry # {}
    /\ events = <<"fetch", "sleep", "fetch", "sleep", "fetch">>

\* the wait returned a list without a submitted submission untouched
C25_WitnessNoFetch ==
    /\ WaitReturned
    /\ SubmittedOnEntry = {}
    /\ events = <<>>

\* position of a key in user_files
KeyIndex(k) == CHOOSE i \in 1..Len(user_files) : user_files[i][1] = k

\* the keys that have a report entry are the first keys of user_files
ReportedKeysArePrefix ==
    \E n \in 0..Len(user_files) : DOMAIN report = {user_files[i][1] : i \in 1..n}

\* C26: the keys are processed one after another in the order of
\* user_files; for one key every file write comes before any placeholder
\* write and the placeholder writes follow the order of the route table; no
\* write for a later key comes before the last write of an earlier key.
C26_WritesInKeyThenPhaseOrder ==
    /\ ReportedKeysArePrefix
    /\ \A i, j \in 1..Len(writes) :
            i < j =>
                /\ KeyIndex(writes[i].key) <= KeyIndex(writes[j].key)
                /\ writes[i].key = writes[j].key =>
                        /\ ~(writes[i].kind = "placeholder" /\ writes[j].kind = "file")
                        /\ (writes[i].kind = "placeholder" /\ writes[j].kind = "placeholder")
                                => writes[i].pattern < writes[j].pattern

\* two file writes and a placeholder write for the first key, then two
\* placeholder writes for the second key
C26_Witness ==
    /\ Len(writes) = 5
    /\ [i \in 1..5 |-> writes[i].kind] =
            <<"file", "file", "placeholder", "placeholder", "placeholder">>
    /\ [i \in 1..5 |-> writes[i].key] = <<"k1", "k1", "k1", "k2", "k2">>
    /\ writes[4].pattern = 1
    /\ writes[5].pattern = 2

\* the keys among the first n of user_files that resolve to a student who
\* has a submission record
KeysWithSubmission(n) ==
    {i \in 1..n :
        /\ user_files[i][1] \in DOMAIN fname_student_map
        /\ user_submission_map[fname_student_map[user_files[i][1]]].state # "none"}

\* the keys the executor has entered: those before ki and, while it is in
\* the loops of a key, that key
KeysEntered ==
    IF pc \in {"save", "done"} THEN Len(user_files)
    ELSE IF phase = "files" THEN ki
    ELSE ki - 1

C27_Inv ==
    /\ (pc # "aborted" /\ (pc = "submit_answers" \/ SubmitAnswersReturned)) =>
            EventCount("edit") = Cardinality(KeysWithSubmission(KeysEntered))
    /\ (pc = "submit_answers" /\ phase = "files") => ki \in KeysWithSubmission(ki)
    /\ \A w \in 1..Len(writes) : KeyIndex(writes[w].key) \in KeysWithSubmission(KeysEntered)

C27_Step ==
    /\ EventCount("edit")' # EventCount("edit") =>
            /\ pc = "submit_answers" /\ phase = "key"
            /\ ki \in KeysWithSubmission(ki)
            /\ EventCount("edit")' = EventCount("edit") + 1
            /\ writes' = writes
    /\ (phase = "files" /\ phase' = "files") =>
            /\ ki' = ki
            /\ submission_edit' = submission_edit
    /\ writes' # writes => phase = "files"

\* C27: for every key that resolves to a student with a submission the
\* edit view is fetched exactly once, and the slots of that one view serve
\* every file write and placeholder write of the key; for a key skipped on
\* an identity miss or a submission miss it is not fetched.  The count is
\* taken over the keys the executor has entered, while the run goes on and
\* when submit_answers has returned.
C27_EditViewFetchedOncePerKey == [](C27_Inv) /\ [][C27_Step]_vars

\* the run has finished two keys: one skipped, one with one edit view and
\* both a file write and a placeholder write
C27_Witness ==
    /\ SubmitAnswersReturned
    /\ Cardinality(KeysWithSubmission(Len(user_files))) = 1
    /\ Len(user_files) = 2
    /\ EventCount("edit") = 1
    /\ \E i, j \in 1..Len(writes) : writes[i].kind = "file" /\ writes[j].kind = "placeholder"

\* the roster students that have the email, or the name, of a table row
WithEmail(row) == {j \in 1..Len(students) : students[j].email = row.email}
WithName(row) == {j \in 1..Len(students) : students[j].name = row.name}

\* C28: get_fname_student_map maps a key to one student at most: a key whose
\* email is no student's goes to the student indexed under its name; a key
\* that matches neither way is absent from the result and nothing is
\* raised; the keys of the result are keys of the table and its values are
\* students of the roster.
C28_NameFallbackAndSilentMiss ==
    pc = "resolved" =>
        /\ error = None
        /\ DOMAIN fname_student_map \subseteq TableKeys(fname_user_map)
        /\ \A k \in DOMAIN fname_student_map : fname_student_map[k] \in 1..Len(students)
        /\ \A r \in 1..Len(fname_user_map) :
                LET k == fname_user_map[r][1]
                    row == fname_user_map[r][2]
                IN  /\ (WithEmail(row) = {} /\ WithName(row) # {}) =>
                            /\ k \in DOMAIN fname_student_map
                            /\ fname_student_map[k] \in WithName(row)
                    /\ (WithEmail(row) = {} /\ WithName(row) = {}) =>
                            k \notin DOMAIN fname_student_map

\* a table of two keys: one resolved by its name, its email being nobody's,
\* the other matching nobody
C28_Witness ==
    /\ pc = "resolved"
    /\ Len(fname_user_map) = 2
    /\ \E r1, r2 \in 1..2 :
            /\ WithEmail(fname_user_map[r1][2]) = {}
            /\ WithName(fname_user_map[r1][2]) # {}
            /\ fname_user_map[r1][1] \in DOMAIN fname_student_map
            /\ WithEmail(fname_user_map[r2][2]) = {}
            /\ WithName(fname_user_map[r2][2]) = {}
            /\ fname_user_map[r2][1] \notin DOMAIN fname_student_map

\* the greatest element of a non-empty set of roster positions
Last(S) == CHOOSE i \in S : \A j \in S : j <= i

\* C29: when several roster students share an email, a key with that email
\* resolves to the last of them in roster order; when several share a name,
\* a key with that name and an email that is nobody's resolves to the last
\* of them; nothing is raised.
C29_LastDuplicateWins ==
    pc = "resolved" =>
        /\ error = None
        /\ \A r \in 1..Len(fname_user_map) :
                LET k == fname_user_map[r][1]
                    row == fname_user_map[r][2]
                IN  /\ Cardinality(WithEmail(row)) >= 2 =>
                            /\ k \in DOMAIN fname_student_map
                            /\ fname_student_map[k] = Last(WithEmail(row))
                    /\ (WithEmail(row) = {} /\ Cardinality(WithName(row)) >= 2) =>
                            /\ k \in DOMAIN fname_student_map
                            /\ fname_student_map[k] = Last(WithName(row))

\* three students share a name; a key with that name and nobody's email is
\* resolved to the third
C29_Witness ==
    /\ pc = "resolved"
    /\ Len(students) = 3
    /\ \E r \in 1..Len(fname_user_map) :
            /\ WithEmail(fname_user_map[r][2]) = {}
            /\ WithName(fname_user_map[r][2]) = {1, 2, 3}
            /\ fname_student_map[fname_user_map[r][1]] = 3

\* no element occurs twice in the list
NoDuplicates(list) == \A i, j \in 1..Len(list) : list[i] = list[j] => i = j

\* C30: in every report entry each of errors, submitted, no_match and
\* no_submission holds no string twice, whatever the route table, tables
\* with several patterns for one title included.
C30_ReportListsAreSets ==
    \A k \in DOMAIN report :
        /\ NoDuplicates(report[k].errors)
        /\ NoDuplicates(report[k].submitted)
        /\ NoDuplicates(report[k].no_match)
        /\ NoDuplicates(report[k].no_submission)

\* number of positions of a list that hold x
Occurrences(list, x) == Cardinality({i \in 1..Len(list) : list[i] = x})

\* the list begins with the given prefix
StartsWith(list, prefix) ==
    /\ Len(prefix) <= Len(list)
    /\ \A i \in 1..Len(prefix) : list[i] = prefix[i]

\* number of 'Failed to submit <filename>: ...' messages in a list of errors
FailedCount(errors, filename) ==
    Cardinality({i \in 1..Len(errors) : StartsWith(errors[i], <<"F">> \o filename \o <<":">>)})

\* the files of the i-th key that the loop over the files has gone through
FilesDone(i) ==
    IF pc \in {"submit_answers", "aborted"} /\ phase = "files" /\ i = ki
    THEN {user_files[i][2][p] : p \in 1..(IF fi - 1 < Len(user_files[i][2])
                                          THEN fi - 1 ELSE Len(user_files[i][2]))}
    ELSE Range(user_files[i][2])

\* C31: for every key whose student and submission were resolved, each
\* filename the executor has gone through is in exactly one of three places,
\* once: the submitted list, the no_match list, or one 'Failed to submit
\* <filename>' message of errors; the two lists hold nothing but filenames
\* of the key.
C31_EachFileInExactlyOnePlace ==
    \A i \in KeysWithSubmission(KeysEntered) :
        LET k == user_files[i][1]
        IN  /\ k \in DOMAIN report
            /\ \A f \in FilesDone(i) :
                    Occurrences(report[k].submitted, f) + Occurrences(report[k].no_match, f)
                        + FailedCount(report[k].errors, f) = 1
            /\ Range(report[k].submitted) \cup Range(report[k].no_match)
                    \subseteq FilesDone(i)

\* a key of two files, one submitted and one that failed, has been left
C31_Witness ==
    \E i \in KeysWithSubmission(KeysEntered) :
        /\ i < ki
        /\ Len(user_files[i][2]) = 2
        /\ Len(report[user_files[i][1]].submitted) = 1
        /\ \E f \in Range(user_files[i][2]) :
                FailedCount(report[user_files[i][1]].errors, f) = 1

\* C32: within one run, an answer slot that received the content of a file
\* is never afterwards overwritten by a placeholder write, also when two
\* keys resolve to the same student.
C32_FileNeverOverwrittenByPlaceholder ==
    \A i, j \in 1..Len(writes) :
        (/\ i < j
         /\ writes[i].student = writes[j].student
         /\ writes[i].title = writes[j].title
         /\ writes[i].kind = "file"
         /\ writes[i].ok)
            => ~(writes[j].kind = "placeholder" /\ writes[j].ok)

\* C33: a file for which get_question_key finds a matching pattern is never
\* recorded in no_match, the empty pattern included: the files of no_match
\* are files that no pattern of the route table matches.
C33_RoutedFileNeverInNoMatch ==
    \A k \in DOMAIN report :
        \A f \in Range(report[k].no_match) : GetQuestionKey(f, file_question_map) = 0

\* every submission that is submitted when the wait starts is graded no
\* later than grading_max_wait_seconds after the start
AllGradedWithinMaxWait == \A s \in SubmittedOnEntry : graded_at[s] <= config.grading[1]

\* C34: if every submission that is submitted when the grading wait starts
\* leaves that state within grading_max_wait_seconds, the wait returns
\* without the timeout error.
C34_NoTimeoutWhenGradedInTime ==
    AllGradedWithinMaxWait => error # "TimeoutError"

\* max(0, maxWait div pollInterval); for a zero interval, where the quotient
\* does not exist, the bound is read as 0
FetchBound ==
    LET maxWait == config.grading[1]
        pollInterval == config.grading[2]
        quotient == IF pollInterval > 0 THEN maxWait \div pollInterval
                    ELSE IF pollInterval < 0 THEN (0 - maxWait) \div (0 - pollInterval)
                    ELSE 0
    IN  IF quotient > 0 THEN quotient ELSE 0

\* C35: for every pair of integers accepted as grading_max_wait_seconds and
\* grading_poll_interval_seconds, the wait makes at most
\* max(0, maxWait div pollInterval) fetches and ends either by returning a
\* list without a submitted submission or by the timeout error, never by
\* another error.
C35_WaitEndsByReturnOrTimeoutOnly ==
    /\ EventCount("fetch") <= FetchBound
    /\ error \in {None, "TimeoutError"}
    /\ WaitReturned => NoneSubmittedNow

\* run has made its first fetch and every submission of the list, which
\* _ensure_submissions_in_attempting_state is entered with, is attempting
AllAttemptingOnEntry ==
    /\ EventCount("fetch") >= 1
    /\ \A s \in Students : user_submission_map[s].state \in {"none", "attempting"}

\* C36: if every submission of the cohort is attempting on entry, or the
\* cohort is empty, _ensure_submissions_in_attempting_state issues no
\* force-submit job, no unsubmit job, no job wait, no fetch and no sleep,
\* raises nothing and returns the list it was given.
C36_NothingDoneWhenAllAttempting ==
    AllAttemptingOnEntry =>
        /\ bulk_jobs = <<>>
        /\ EventCount("force_submit") = 0
        /\ EventCount("unsubmit") = 0
        /\ EventCount("job_wait") = 0
        /\ EventCount("sleep") = 0
        /\ EventCount("fetch") = 1
        /\ student_submissions = user_submission_map
        /\ remote = user_submission_map
        /\ error \notin {"TimeoutError", "AssertionError"}
        /\ pc \notin {"poll", "wait_exit"}

\* it has returned for a cohort of two attempting submissions
C36_Witness ==
    /\ EnsureReturned
    /\ EventCount("check") = 1
    /\ \A s \in Students : user_submission_map[s].state = "attempting"

\* it has returned for an empty cohort
C36_WitnessEmptyCohort ==
    /\ EnsureReturned
    /\ EventCount("check") = 1
    /\ \A s \in Students : user_submission_map[s].state = "none"

\* the directory a path lies in: the path without the name of the file
ParentDir(path) == SubSeq(path, 1, Len(path) - 1)

\* the (key, filename, filepath) entries of the result
UserFileEntries ==
    UNION { {<<user_files[i][1], user_files[i][2][j][1], user_files[i][2][j][2]>> :
                j \in 1..Len(user_files[i][2])} : i \in 1..Len(user_files) }

\* C37: get_user_files loses no file: every path the glob matched is in
\* the result under the name of its parent directory, the result has as
\* many (key, filename) entries as there are matched paths, and the files
\* under one key all lie in one directory.
C37_NoFileLost ==
    pc = "grouped" =>
        /\ \A n \in 1..Len(base_dir.glob) :
                LET path == base_dir.glob[n]
                IN  <<ParentName(path), FileName(path), path>> \in UserFileEntries
        /\ Cardinality(UserFileEntries) = Len(base_dir.glob)
        /\ \A e1, e2 \in UserFileEntries :
                e1[1] = e2[1] => ParentDir(e1[3]) = ParentDir(e2[3])

\* position of the first occurrence of x in a list that holds it
FirstIndex(list, x) == CHOOSE i \in 1..Len(list) : list[i] = x /\ \A j \in 1..(i - 1) : list[j] # x

C38_Inv ==
    /\ NoDuplicates(fetched)
    /\ pc = "scraped" =>
            /\ NoDuplicates(unique_links)
            /\ Range(unique_links) = Range(all_links)
            /\ \A i, j \in 1..Len(unique_links) :
                    i < j => FirstIndex(all_links, unique_links[i])
                                < FirstIndex(all_links, unique_links[j])

\* C38: scrape_directory_index ends for every finite link graph, with
\* cycles and with pages that fail to load; it requests each URL at most
\* once and the list it returns holds no URL twice and keeps the order in
\* which the links were first seen.
C38_ScrapeTerminates == [](C38_Inv) /\ <>(pc \in {"scraped", "aborted"})

\* it has returned from a site with a cycle: the start page and the
\* directory link to each other, and a link was seen twice
C38_Witness ==
    /\ pc = "scraped"
    /\ url = RootUrl
    /\ fetched = <<RootUrl, DirUrl>>
    /\ RootUrl \in Range(site[DirUrl].links)
    /\ Len(all_links) > Len(unique_links)

====
